---- MODULE Spec2Model ----
(***************************************************************************)
(* Model of the Notion -> Discord webhook handler                          *)
(* (src/NotionToDiscordNotifier/main.js).                                   *)
(*                                                                         *)
(* String literals of the source that are not ASCII are written here in    *)
(* ASCII; the definition that stands for each literal quotes the original  *)
(* in its comment.                                                         *)
(***************************************************************************)
EXTENDS Integers, Sequences, FiniteSets, TLC

(***************************************************************************)
(* Bounds of the model.                                                    *)
(***************************************************************************)
\* number of invocations of processWebhook in one behaviour
MaxInvocations == 2

(***************************************************************************)
(* JavaScript values.                                                      *)
(***************************************************************************)
Undefined == "undefined"
Null == "null"
\* JS truthiness of a value that is undefined, null or a string
Truthy(v) == v \notin {Undefined, Null, ""}
\* a || b
OrElse(a, b) == IF Truthy(a) THEN a ELSE b

(***************************************************************************)
(* Literals of the source.                                                 *)
(***************************************************************************)
\* "成功"
STATUS_SUCCESS == "seikou"
\* "一部エラー"
STATUS_PARTIAL == "ichibu-error"
\* "致命的エラー"
STATUS_FATAL == "chimeiteki-error"
\* "企業名不明"
KIGYOMEI_UNKNOWN == "kigyoumei-fumei"
\* "URL不明"
URL_UNKNOWN == "URL-fumei"
\* "日時不明"
TIME_UNKNOWN == "nichiji-fumei"
\* const na = "（未設定）"
na == "(misettei)"
\* "（変更前データなし）"
NO_PREVIOUS_DATA == "(henkoumae-data-nashi)"
\* "ステータス・担当者変更"
TYPE_STATUS == "status-tantousha-henkou"
\* "社労士連携"
TYPE_SHAROUSHI == "sharoushi-renkei"
\* "URL未設定/不正のためスキップ"
SEND_SKIPPED == "URL-misettei/fusei-skip"
\* "送信成功"
SEND_OK == "soushin-seikou"
\* "送信エラー"
SEND_ERROR == "soushin-error"
\* the prefix tested by webhookUrl.startsWith(...)
DISCORD_PREFIX == "https://discord.com/api/webhooks/"
\* CONFIG.SHEETS.STATE.HEADERS
STATE_HEADERS == <<"Page ID", "Last Known Properties (JSON)">>

(***************************************************************************)
(* Inbound data.  A properties object is described by the values the       *)
(* extractor's four optional chains reach in it:                           *)
(*   kigyoMei  = properties["企業名"]?.title?.[0]?.plain_text               *)
(*   status    = properties["商談ステータス"]?.status?.name                 *)
(*   tanto     = properties["担当"]?.select?.name                           *)
(*   sharoushi = properties["社労士連携"]?.status?.name                     *)
(* each Undefined when the chain breaks.  kind tells whether the           *)
(* properties member of the page data is missing, null or an object.       *)
(***************************************************************************)
PageIds == {"P1", "P2"}
KigyoMeiRaw == {Undefined, "A-sha"}
StatusRaw == {Undefined, "shoudanchuu", na}
TantoRaw == {Undefined, "Tanaka"}
SharoushiRaw == {Undefined, "renkeizumi"}
UrlRaw == {Undefined, "https://www.notion.so/p"}
TimeRaw == {Undefined, "2025-06-01T03:04:05.000Z"}

UndefinedProperties ==
  [kind |-> "undefined", kigyoMei |-> Undefined, status |-> Undefined,
   tanto |-> Undefined, sharoushi |-> Undefined]
NullProperties ==
  [kind |-> "null", kigyoMei |-> Undefined, status |-> Undefined,
   tanto |-> Undefined, sharoushi |-> Undefined]
ObjectProperties ==
  [kind : {"object"}, kigyoMei : KigyoMeiRaw, status : StatusRaw,
   tanto : TantoRaw, sharoushi : SharoushiRaw]
Properties == {UndefinedProperties, NullProperties} \cup ObjectProperties

\* the page data object ("data" of the body), id Undefined when it is missing
PageData ==
  [id : PageIds \cup {Undefined}, properties : Properties,
   url : UrlRaw, last_edited_time : TimeRaw]
NoPageData ==
  [id |-> Undefined, properties |-> UndefinedProperties,
   url |-> Undefined, last_edited_time |-> Undefined]

\* the event e of doPost: absent, without postData.contents, with a body that
\* is not JSON, with a body without "data", or with a body carrying page data
EventKinds == {"noEvent", "noPostData", "notJson", "noData", "page"}
Events ==
  [kind : {"noEvent", "noPostData", "notJson", "noData"}, data : {NoPageData}]
    \cup [kind : {"page"}, data : PageData]

(***************************************************************************)
(* JSON.stringify / JSON.parse and spreadsheet cells.                      *)
(* JSON.stringify(undefined) is undefined, not a string; a cell written    *)
(* with undefined is blank; JSON.parse of a blank cell or of a header text *)
(* throws.                                                                 *)
(***************************************************************************)
JSONstringify(p) ==
  IF p.kind = "undefined"
    THEN [kind |-> "undefined", v |-> UndefinedProperties]
    ELSE [kind |-> "json", v |-> p]
\* the value a cell holds after appendRow / setValue of x
CellOf(x) ==
  IF x.kind = "undefined" THEN [kind |-> "blank", v |-> UndefinedProperties]
  ELSE x
\* JSON.parse of a cell: ok = FALSE stands for the SyntaxError
JSONparse(cell) ==
  IF cell.kind = "json" THEN [ok |-> TRUE, value |-> cell.v]
  ELSE [ok |-> FALSE, value |-> UndefinedProperties]

\* the header row of the state sheet
StateHeaderRow ==
  [pageId |-> STATE_HEADERS[1],
   json |-> [kind |-> "text", v |-> UndefinedProperties]]

(***************************************************************************)
(* Property Extractor.                                                     *)
(***************************************************************************)
\* Utilities.formatDate(new Date(t), "Asia/Tokyo", "yyyy/MM/dd HH:mm:ss")
formatDate(t) ==
  CASE t = "2025-06-01T03:04:05.000Z" -> "2025/06/01 12:04:05"
    [] OTHER -> "1970/01/01 09:00:00"

\* the record a call returns when previousInfo is null
NullInfo ==
  [isNull |-> TRUE, kigyoMei |-> Null, status |-> Null, tanto |-> Null,
   sharoushi |-> Null, pageUrl |-> Null, lastEditedTime |-> Null]

\* as extractNotionInfo, returning the placeholders also when the company name
\* is missing
extractNotionInfo_requiresKigyoMei(notionPageData) ==
  LET properties == notionPageData.properties
  IN IF properties.kind # "object" \/ ~Truthy(properties.kigyoMei)
       THEN [isNull |-> FALSE, kigyoMei |-> KIGYOMEI_UNKNOWN, status |-> Null,
             tanto |-> Null, sharoushi |-> Null, pageUrl |-> URL_UNKNOWN,
             lastEditedTime |-> TIME_UNKNOWN]
       ELSE [isNull |-> FALSE,
             kigyoMei |-> properties.kigyoMei,
             status |-> OrElse(properties.status, Null),
             tanto |-> OrElse(properties.tanto, Null),
             sharoushi |-> OrElse(properties.sharoushi, Null),
             pageUrl |-> OrElse(notionPageData.url, URL_UNKNOWN),
             lastEditedTime |->
               IF Truthy(notionPageData.last_edited_time)
                 THEN formatDate(notionPageData.last_edited_time)
                 ELSE TIME_UNKNOWN]

\* extractNotionInfo(notionPageData, executionLogs); the third argument some
\* callers pass is not a parameter of the function
extractNotionInfo(notionPageData) ==
  LET properties == notionPageData.properties
  IN IF properties.kind # "object"
       THEN [isNull |-> FALSE, kigyoMei |-> KIGYOMEI_UNKNOWN, status |-> Null,
             tanto |-> Null, sharoushi |-> Null, pageUrl |-> URL_UNKNOWN,
             lastEditedTime |-> TIME_UNKNOWN]
       ELSE [isNull |-> FALSE,
             kigyoMei |-> OrElse(properties.kigyoMei, KIGYOMEI_UNKNOWN),
             status |-> OrElse(properties.status, Null),
             tanto |-> OrElse(properties.tanto, Null),
             sharoushi |-> OrElse(properties.sharoushi, Null),
             pageUrl |-> OrElse(notionPageData.url, URL_UNKNOWN),
             lastEditedTime |->
               IF Truthy(notionPageData.last_edited_time)
                 THEN formatDate(notionPageData.last_edited_time)
                 ELSE TIME_UNKNOWN]

\* { properties: previousState.properties }, the object the previous record is
\* extracted from
PreviousPageData(properties) ==
  [id |-> Undefined, properties |-> properties, url |-> Undefined,
   last_edited_time |-> Undefined]

(***************************************************************************)
(* State Store.  The sheet is the sequence of its rows, row 1 the header;  *)
(* data[i] of the source (0-based) is rows[i + 1], rowIndex = i + 1.       *)
(***************************************************************************)
NoPreviousState ==
  [found |-> FALSE, raised |-> FALSE, rowIndex |-> -1,
   properties |-> UndefinedProperties]

\* the loop of getPreviousState from row r down to row 2
RECURSIVE scanFrom(_, _, _)
scanFrom(rows, pageId, r) ==
  IF r <= 1 THEN NoPreviousState
  ELSE IF rows[r].pageId = pageId
    THEN LET parsed == JSONparse(rows[r].json)
         IN IF parsed.ok
              THEN [found |-> TRUE, raised |-> FALSE, rowIndex |-> r,
                    properties |-> parsed.value]
              ELSE NoPreviousState
    ELSE scanFrom(rows, pageId, r - 1)

\* as getPreviousState, going on with the scan above a row that does not parse
getPreviousState_skipsUnparsable(rows, pageId) ==
  LET hit == {i \in 2..Len(rows) : rows[i].pageId = pageId /\ JSONparse(rows[i].json).ok}
      r == CHOOSE i \in hit : \A q \in hit : q <= i
  IN IF hit = {} THEN NoPreviousState
     ELSE [found |-> TRUE, raised |-> FALSE, rowIndex |-> r,
           properties |-> JSONparse(rows[r].json).value]

\* as getPreviousState, scanning from the top: the first matching row wins
getPreviousState_firstMatch(rows, pageId) ==
  LET hit == {i \in 2..Len(rows) : rows[i].pageId = pageId}
      r == CHOOSE i \in hit : \A q \in hit : i <= q
  IN IF hit = {} THEN NoPreviousState
     ELSE IF JSONparse(rows[r].json).ok
       THEN [found |-> TRUE, raised |-> FALSE, rowIndex |-> r,
             properties |-> JSONparse(rows[r].json).value]
       ELSE NoPreviousState

\* as getPreviousState, without the try/catch around JSON.parse
getPreviousState_noCatch(rows, pageId) ==
  LET r == scanFrom(rows, pageId, Len(rows))
      hit == {i \in 2..Len(rows) : rows[i].pageId = pageId}
  IN IF hit # {} /\ ~r.found THEN [r EXCEPT !.raised = TRUE] ELSE r

getPreviousState(rows, pageId) == scanFrom(rows, pageId, Len(rows))

\* as updateCurrentState, inserting a new row below the header instead of
\* appending it, which shifts the rows already there
updateCurrentState_insertOnTop(rows, pageId, newProperties, rowIndex) ==
  IF rowIndex > -1
    THEN [rows EXCEPT ![rowIndex].json = CellOf(JSONstringify(newProperties))]
    ELSE <<rows[1], [pageId |-> pageId, json |-> CellOf(JSONstringify(newProperties))]>>
           \o SubSeq(rows, 2, Len(rows))

\* as updateCurrentState, appending a row whatever the row index is
updateCurrentState_appendAlways(rows, pageId, newProperties, rowIndex) ==
  Append(rows, [pageId |-> pageId, json |-> CellOf(JSONstringify(newProperties))])

\* as updateCurrentState, addressing the row by the 0-based index of the scan
updateCurrentState_zeroBased(rows, pageId, newProperties, rowIndex) ==
  IF rowIndex > -1
    THEN [rows EXCEPT ![rowIndex - 1].json = CellOf(JSONstringify(newProperties))]
    ELSE Append(rows, [pageId |-> pageId, json |-> CellOf(JSONstringify(newProperties))])

\* as updateCurrentState, without the setValue of the then branch
updateCurrentState_noOverwrite(rows, pageId, newProperties, rowIndex) ==
  IF rowIndex > -1
    THEN rows
    ELSE Append(rows, [pageId |-> pageId, json |-> CellOf(JSONstringify(newProperties))])

\* as updateCurrentState, without the appendRow of the else branch
updateCurrentState_noAppend(rows, pageId, newProperties, rowIndex) ==
  IF rowIndex > -1
    THEN [rows EXCEPT ![rowIndex].json = CellOf(JSONstringify(newProperties))]
    ELSE rows

updateCurrentState(rows, pageId, newProperties, rowIndex) ==
  LET newPropertiesJson == JSONstringify(newProperties)
  IN IF rowIndex > -1
       THEN [rows EXCEPT ![rowIndex].json = CellOf(newPropertiesJson)]
       ELSE Append(rows, [pageId |-> pageId, json |-> CellOf(newPropertiesJson)])

(***************************************************************************)
(* Notification decisions (handleNotifications, lines 412-423).            *)
(***************************************************************************)
\* as needsStatusNotification, deciding on the current record alone
needsStatusNotification_ignoresPrevious(previousInfo, currentInfo) ==
  Truthy(currentInfo.status) \/ Truthy(currentInfo.tanto)

\* as needsStatusNotification, comparing the status only
needsStatusNotification_statusOnly(previousInfo, currentInfo) ==
  LET isNewPage == previousInfo.isNull
  IN \/ isNewPage /\ Truthy(currentInfo.status)
     \/ ~isNewPage /\ previousInfo.status # currentInfo.status

needsStatusNotification(previousInfo, currentInfo) ==
  LET isNewPage == previousInfo.isNull
  IN \/ isNewPage /\ (Truthy(currentInfo.status) \/ Truthy(currentInfo.tanto))
     \/ ~isNewPage /\ (previousInfo.status # currentInfo.status
                         \/ previousInfo.tanto # currentInfo.tanto)

\* as needsSharoushiNotification, notifying every new page
needsSharoushiNotification_everyNew(previousInfo, currentInfo) ==
  LET isNewPage == previousInfo.isNull
  IN \/ isNewPage
     \/ ~isNewPage /\ previousInfo.sharoushi # currentInfo.sharoushi

needsSharoushiNotification(previousInfo, currentInfo) ==
  LET isNewPage == previousInfo.isNull
  IN \/ isNewPage /\ Truthy(currentInfo.sharoushi)
     \/ ~isNewPage /\ previousInfo.sharoushi # currentInfo.sharoushi

(***************************************************************************)
(* Notification Composer.  A message is the record of the parts the        *)
(* template strings interpolate; a field line is either the arrow line     *)
(* "`prev` -> `cur` に変更" or the plain line holding the current value.   *)
(***************************************************************************)
ArrowLine(prev, cur) == [arrow |-> TRUE, prev |-> prev, cur |-> cur]
PlainLine(cur) == [arrow |-> FALSE, prev |-> "", cur |-> cur]

\* the message of an invocation that composed none
NoMessage ==
  [kind |-> "none", kigyoMei |-> "", statusLine |-> PlainLine(""),
   tantoLine |-> PlainLine(""), lastEditedTime |-> "", pageUrl |-> ""]

\* as createStatusChangeMessage, rendering the status with the arrow line always
createStatusChangeMessage_alwaysArrow(previousInfo, currentInfo) ==
  LET prevStatus == IF ~previousInfo.isNull THEN OrElse(previousInfo.status, na) ELSE na
      currentStatus == OrElse(currentInfo.status, na)
      prevTanto == IF ~previousInfo.isNull THEN OrElse(previousInfo.tanto, na) ELSE na
      currentTanto == OrElse(currentInfo.tanto, na)
  IN [kind |-> "status", kigyoMei |-> currentInfo.kigyoMei,
      statusLine |-> ArrowLine(prevStatus, currentStatus),
      tantoLine |-> IF currentTanto # prevTanto
                      THEN ArrowLine(prevTanto, currentTanto)
                      ELSE PlainLine(currentTanto),
      lastEditedTime |-> currentInfo.lastEditedTime,
      pageUrl |-> currentInfo.pageUrl]

createStatusChangeMessage(previousInfo, currentInfo) ==
  LET prevStatus == IF ~previousInfo.isNull THEN OrElse(previousInfo.status, na) ELSE na
      currentStatus == OrElse(currentInfo.status, na)
      prevTanto == IF ~previousInfo.isNull THEN OrElse(previousInfo.tanto, na) ELSE na
      currentTanto == OrElse(currentInfo.tanto, na)
  IN [kind |-> "status", kigyoMei |-> currentInfo.kigyoMei,
      statusLine |-> IF currentStatus # prevStatus
                       THEN ArrowLine(prevStatus, currentStatus)
                       ELSE PlainLine(currentStatus),
      tantoLine |-> IF currentTanto # prevTanto
                      THEN ArrowLine(prevTanto, currentTanto)
                      ELSE PlainLine(currentTanto),
      lastEditedTime |-> currentInfo.lastEditedTime,
      pageUrl |-> currentInfo.pageUrl]

\* the liaison message: statusLine is the transition line of the liaison field,
\* tantoLine the plain line of the assignee; it carries no last-edited time
createSharoushiUpdateMessage(previousInfo, currentInfo) ==
  LET prevSharoushi == IF ~previousInfo.isNull
                         THEN OrElse(previousInfo.sharoushi, na)
                         ELSE NO_PREVIOUS_DATA
  IN [kind |-> "sharoushi", kigyoMei |-> currentInfo.kigyoMei,
      statusLine |-> ArrowLine(prevSharoushi, OrElse(currentInfo.sharoushi, na)),
      tantoLine |-> PlainLine(OrElse(currentInfo.tanto, na)),
      lastEditedTime |-> "",
      pageUrl |-> currentInfo.pageUrl]

(***************************************************************************)
(* Notifier.  A configured URL is its text split at the length of the      *)
(* expected prefix; a property that is not set reads as null.              *)
(***************************************************************************)
NullUrl == [isNull |-> TRUE, prefix |-> "", rest |-> ""]
WebhookUrls ==
  {NullUrl,
   [isNull |-> FALSE, prefix |-> "https://hooks.example.com/services", rest |-> "/1"],
   [isNull |-> FALSE, prefix |-> DISCORD_PREFIX, rest |-> "1/token"]}
\* webhookUrl.startsWith("https://discord.com/api/webhooks/")
startsWithDiscordPrefix(webhookUrl) == webhookUrl.prefix = DISCORD_PREFIX

\* what UrlFetchApp.fetch does: it returns, or it throws an exception whose
\* toString() is the given text
FetchResults == {"ok", "Exception: Request failed for https://discord.com returned code 404"}

\* as sendDiscordMessage, without the try/catch around UrlFetchApp.fetch
sendDiscordMessage_noCatch(webhookUrl, fetchResult) ==
  IF webhookUrl.isNull \/ ~startsWithDiscordPrefix(webhookUrl)
    THEN [status |-> SEND_SKIPPED, error |-> Null, fetched |-> FALSE, calls |-> 0,
          raised |-> FALSE]
  ELSE IF fetchResult = "ok"
    THEN [status |-> SEND_OK, error |-> Null, fetched |-> TRUE, calls |-> 1,
          raised |-> FALSE]
    ELSE [status |-> "", error |-> fetchResult, fetched |-> TRUE, calls |-> 1,
          raised |-> TRUE]

\* as sendDiscordMessage, calling UrlFetchApp.fetch a second time after a failure
sendDiscordMessage_retry(webhookUrl, fetchResult) ==
  IF webhookUrl.isNull \/ ~startsWithDiscordPrefix(webhookUrl)
    THEN [status |-> SEND_SKIPPED, error |-> Null, fetched |-> FALSE, calls |-> 0,
          raised |-> FALSE]
  ELSE IF fetchResult = "ok"
    THEN [status |-> SEND_OK, error |-> Null, fetched |-> TRUE, calls |-> 1,
          raised |-> FALSE]
    ELSE [status |-> SEND_ERROR, error |-> fetchResult, fetched |-> TRUE, calls |-> 2,
          raised |-> FALSE]

\* as sendDiscordMessage, testing only that the URL is set
sendDiscordMessage_noPrefixTest(webhookUrl, fetchResult) ==
  IF webhookUrl.isNull
    THEN [status |-> SEND_SKIPPED, error |-> Null, fetched |-> FALSE, calls |-> 0,
          raised |-> FALSE]
  ELSE IF fetchResult = "ok"
    THEN [status |-> SEND_OK, error |-> Null, fetched |-> TRUE, calls |-> 1,
          raised |-> FALSE]
    ELSE [status |-> SEND_ERROR, error |-> fetchResult, fetched |-> TRUE, calls |-> 1,
          raised |-> FALSE]

\* sendDiscordMessage(webhookUrl, payload, executionLogs): fetched tells whether
\* UrlFetchApp.fetch was called, calls how often, raised whether an exception
\* left the function
sendDiscordMessage(webhookUrl, fetchResult) ==
  IF webhookUrl.isNull \/ ~startsWithDiscordPrefix(webhookUrl)
    THEN [status |-> SEND_SKIPPED, error |-> Null, fetched |-> FALSE, calls |-> 0,
          raised |-> FALSE]
  ELSE IF fetchResult = "ok"
    THEN [status |-> SEND_OK, error |-> Null, fetched |-> TRUE, calls |-> 1,
          raised |-> FALSE]
    ELSE [status |-> SEND_ERROR, error |-> fetchResult, fetched |-> TRUE, calls |-> 1,
          raised |-> FALSE]

\* as overallStatusAfterNotifications, looking at the first result only
overallStatusAfterNotifications_firstOnly(overallStatus, notificationResults) ==
  IF Len(notificationResults) > 0 /\ Truthy(notificationResults[1].error)
    THEN STATUS_PARTIAL
    ELSE overallStatus

\* lines 137-139: if (notificationResults.some((r) => r.error)) ...
overallStatusAfterNotifications(overallStatus, notificationResults) ==
  IF \E k \in 1..Len(notificationResults) : Truthy(notificationResults[k].error)
    THEN STATUS_PARTIAL
    ELSE overallStatus

(***************************************************************************)
(* Configuration and inbound parsing.                                      *)
(***************************************************************************)
\* CONFIG.SHEETS.LOG.NAME_DEFAULT
LOG_NAME_DEFAULT == "NotionWebhookLog"

\* the script properties loadConfig reads; a property that is not set is null
ScriptProperties ==
  [SPREADSHEET_ID : {Null, "sheet-id"}, LOG_SHEET_NAME : {Null, "WebhookLog2"},
   DISCORD_URL : WebhookUrls, DISCORD_URL_SHAROUSHI : WebhookUrls]
NoScriptProperties ==
  [SPREADSHEET_ID |-> Null, LOG_SHEET_NAME |-> Null,
   DISCORD_URL |-> NullUrl, DISCORD_URL_SHAROUSHI |-> NullUrl]

NoConfig ==
  [spreadsheetId |-> Null, logSheetName |-> LOG_NAME_DEFAULT,
   discordUrl |-> NullUrl, discordUrlSharoushi |-> NullUrl]

\* as loadConfig, requiring the notification URL as well
loadConfig_requiresUrl(properties) ==
  LET config == [spreadsheetId |-> properties.SPREADSHEET_ID,
                 logSheetName |-> OrElse(properties.LOG_SHEET_NAME, LOG_NAME_DEFAULT),
                 discordUrl |-> properties.DISCORD_URL,
                 discordUrlSharoushi |-> properties.DISCORD_URL_SHAROUSHI]
  IN IF ~Truthy(config.spreadsheetId) \/ config.discordUrl.isNull
       THEN [raised |-> TRUE, config |-> NoConfig]
       ELSE [raised |-> FALSE, config |-> config]

\* loadConfig(executionLogs): raised when the spreadsheet id is not set
loadConfig(properties) ==
  LET config == [spreadsheetId |-> properties.SPREADSHEET_ID,
                 logSheetName |-> OrElse(properties.LOG_SHEET_NAME, LOG_NAME_DEFAULT),
                 discordUrl |-> properties.DISCORD_URL,
                 discordUrlSharoushi |-> properties.DISCORD_URL_SHAROUSHI]
  IN IF ~Truthy(config.spreadsheetId)
       THEN [raised |-> TRUE, config |-> NoConfig]
       ELSE [raised |-> FALSE, config |-> config]

\* parseWebhookEvent(e, executionLogs): notionPageData is null unless the body
\* parses and carries "data"
parseWebhookEvent(e) ==
  IF e.kind = "page"
    THEN [isNull |-> FALSE, notionPageData |-> e.data]
    ELSE [isNull |-> TRUE, notionPageData |-> NoPageData]

\* as auditRowOf, without the "N/A" fallback for a null notionInfo
auditRowOf_noFallback(notionInfo, overallStatus, discordSendStatus) ==
  [kigyoMei |-> notionInfo.kigyoMei, status |-> notionInfo.status,
   tanto |-> notionInfo.tanto,
   overallStatus |-> overallStatus, discordSendStatus |-> discordSendStatus]

\* the row logToSheet appends (the columns the claims read)
auditRowOf(notionInfo, overallStatus, discordSendStatus) ==
  LET shown == IF notionInfo.isNull
                 THEN [kigyoMei |-> "N/A", status |-> "N/A", tanto |-> "N/A"]
                 ELSE [kigyoMei |-> notionInfo.kigyoMei,
                       status |-> notionInfo.status, tanto |-> notionInfo.tanto]
  IN [kigyoMei |-> shown.kigyoMei, status |-> shown.status, tanto |-> shown.tanto,
      overallStatus |-> overallStatus, discordSendStatus |-> discordSendStatus]
NoAuditRow == auditRowOf(NullInfo, "", <<>>)

(***************************************************************************)
(* State.                                                                  *)
(***************************************************************************)
Procs == {1, 2}

VARIABLES
  stateSheet,   \* the sheet "ページ状態履歴": whether it exists, and its rows
  logSheet,     \* the log sheet: whether it exists (its rows are never read;
                \* the row an invocation appends is kept in inv[i].auditRow)
  inv,          \* inv[i]: the locals of invocation slot i of processWebhook
  started,      \* invocations begun so far
  lastFor,      \* lastFor[id]: the page data of the latest completed invocation
                \* that carried page id id, if its state write completed
  part000,      \* the earlier single-channel handler (src/unnamed/part_000):
                \* its log sheet and the locals of its doPost
  part001,      \* the earlier two-channel handler (src/unnamed/part_001):
                \* its state sheet and the locals of its doPost
  tool          \* the batch draft tool (createDraftsForSelectedRows): the
                \* status column, the drafts in Gmail and the run in progress

\* the three other programs of the repository; each is a deployment of its
\* own and shares nothing with processWebhook
otherPrograms == <<part000, part001, tool>>
\* processWebhook's own state
webhook == <<stateSheet, logSheet, inv, started, lastFor>>

vars == <<stateSheet, logSheet, inv, started, lastFor, part000, part001, tool>>

\* the locals of processWebhook before line 85, and a record of the external
\* calls the invocation has made: how many of each, what each fetch did
\* (fetched), whether the stored payload found for the page id failed to
\* parse (corrupt), whether handleNotifications returned (handled), the script
\* properties loadConfig read, how often getOrCreateSheet was called
\* (sheetOpens), the rows getPreviousState read (data), which running
\* invocations had written the state sheet when this one read it (readAfter)
\* and when this one wrote it (wroteAfter), the two sheets as the invocation
\* found them when it began (before), the response doPost returned for the
\* slot's latest invocation (response)
NoResponse == [status |-> "", message |-> ""]
NoSheets == [state |-> [exists |-> FALSE, rows |-> <<>>], log |-> [exists |-> FALSE]]
InitLocals ==
  [pc |-> "idle",
   before |-> NoSheets,
   response |-> NoResponse,
   scriptProperties |-> NoScriptProperties,
   config |-> NoConfig,
   sheetOpens |-> 0,
   logSheet |-> FALSE,
   stateSheet |-> FALSE,
   eventKind |-> "none",
   currentPageData |-> NoPageData,
   pageId |-> Undefined,
   notionInfo |-> NullInfo,
   previousState |-> NoPreviousState,
   previousInfo |-> NullInfo,
   corrupt |-> FALSE,
   handled |-> FALSE,
   notificationResults |-> <<>>,
   statusMessage |-> NoMessage,
   sharoushiMessage |-> NoMessage,
   overallStatus |-> STATUS_SUCCESS,
   discordSendStatus |-> <<>>,
   raisedAt |-> "none",
   httpCalls |-> [status |-> 0, sharoushi |-> 0],
   fetched |-> [status |-> "none", sharoushi |-> "none"],
   stateReads |-> 0,
   stateWrites |-> 0,
   stateWritten |-> FALSE,
   data |-> <<>>,
   readAfter |-> {},
   wroteAfter |-> {},
   auditAppends |-> 0,
   auditAppended |-> FALSE,
   auditRow |-> NoAuditRow,
   loggerFallback |-> FALSE]

NoLast == [updated |-> FALSE, data |-> NoPageData, corrupt |-> FALSE]

\* a program that is not deployed next to the one a specification is about
NotDeployed == [deployed |-> FALSE]
OtherProgramsIdle ==
  /\ part000 = NotDeployed
  /\ part001 = NotDeployed
  /\ tool = NotDeployed

Init ==
  /\ stateSheet = [exists |-> FALSE, rows |-> <<>>]
  /\ logSheet = [exists |-> FALSE]
  /\ inv = [i \in Procs |-> InitLocals]
  /\ started = 0
  /\ lastFor = [id \in PageIds |-> NoLast]
  /\ OtherProgramsIdle

\* the bottom-most data row of the state sheet that carries the page id, 0 if none
LastRowOf(rows, pageId) ==
  LET hit == {r \in 2..Len(rows) : rows[r].pageId = pageId}
  IN IF hit = {} THEN 0 ELSE CHOOSE r \in hit : \A q \in hit : q <= r

(***************************************************************************)
(* The inputs of the handler in the specification Spec.                    *)
(***************************************************************************)
SpecProperties ==
  {UndefinedProperties, NullProperties}
    \cup [kind : {"object"}, kigyoMei : {"A-sha"}, status : StatusRaw,
          tanto : TantoRaw, sharoushi : SharoushiRaw]
\* the second page arrives with two payloads only
SpecPropertiesOf(id) ==
  IF id = "P1" THEN SpecProperties
  ELSE {p \in SpecProperties :
          /\ p.status = "shoudanchuu"
          /\ (p.tanto = Undefined) <=> (p.sharoushi = Undefined)}
SpecPageData ==
  {d \in [id : PageIds, properties : SpecProperties,
          url : {"https://www.notion.so/p"},
          last_edited_time : {"2025-06-01T03:04:05.000Z"}] :
     d.properties \in SpecPropertiesOf(d.id)}
\* page data that carries properties and no id
NoIdPageData ==
  [id |-> Undefined,
   properties |-> [kind |-> "object", kigyoMei |-> "A-sha", status |-> "shoudanchuu",
                   tanto |-> "Tanaka", sharoushi |-> Undefined],
   url |-> "https://www.notion.so/p",
   last_edited_time |-> "2025-06-01T03:04:05.000Z"]
\* every kind of event; NoPageData under "page" is an empty data object
SpecEvents ==
  [kind : {"noEvent", "noPostData", "notJson", "noData"}, data : {NoPageData}]
    \cup [kind : {"page"}, data : SpecPageData \cup {NoPageData, NoIdPageData}]
\* the script properties of Spec: the log sheet is the default one whenever the
\* spreadsheet id is set (the handler never reads the rows of the log sheet,
\* so its name matters to loadConfig only)
SpecScriptProperties ==
  {p \in ScriptProperties : p.LOG_SHEET_NAME # Null => p.SPREADSHEET_ID = Null}

(***************************************************************************)
(* processWebhook, one action per external call.                           *)
(***************************************************************************)
\* as catch, writing the audit row in the catch block as well
catch_alsoLogs(l, step) ==
  [l EXCEPT !.overallStatus = STATUS_FATAL, !.raisedAt = step, !.pc = "finally",
            !.auditAppends = IF l.logSheet THEN @ + 1 ELSE @]

\* as catch, leaving a status that the notifications already lowered
catch_keepsPartial(l, step) ==
  [l EXCEPT !.overallStatus = IF @ = STATUS_SUCCESS THEN STATUS_FATAL ELSE @,
            !.raisedAt = step, !.pc = "finally"]

\* as catch, throwing the error on to the caller of processWebhook
catch_rethrows(l, step) ==
  [l EXCEPT !.overallStatus = STATUS_FATAL, !.raisedAt = step, !.pc = "escaped"]

\* lines 149-155: the catch block, entered from the step that raised
catch(l, step) ==
  [l EXCEPT !.overallStatus = STATUS_FATAL, !.raisedAt = step, !.pc = "finally"]

\* doPost is triggered; in Spec an invocation begins only when none is running
Begin(i) ==
  /\ started < MaxInvocations
  /\ \A j \in Procs : inv[j].pc = "idle"
  /\ \A j \in Procs : j >= i
  /\ inv' = [inv EXCEPT ![i] =
       [InitLocals EXCEPT !.pc = "loadConfig",
                          !.before = [state |-> stateSheet, log |-> logSheet]]]
  /\ started' = started + 1
  /\ UNCHANGED <<stateSheet, logSheet, lastFor, otherPrograms>>

\* line 87
LoadConfig(i) ==
  /\ inv[i].pc = "loadConfig"
  /\ \E properties \in SpecScriptProperties :
       LET r == loadConfig(properties)
       IN inv' = [inv EXCEPT ![i] =
            IF r.raised
              THEN catch([@ EXCEPT !.scriptProperties = properties], "loadConfig")
              ELSE [@ EXCEPT !.scriptProperties = properties,
                             !.config = r.config, !.pc = "getLogSheet"]]
  /\ UNCHANGED <<stateSheet, logSheet, started, lastFor, otherPrograms>>

\* lines 91-95: getOrCreateSheet for the log sheet; SpreadsheetApp may throw
GetLogSheet(i) ==
  /\ inv[i].pc = "getLogSheet"
  /\ \E ok \in BOOLEAN :
       IF ok
         THEN /\ logSheet' = [logSheet EXCEPT !.exists = TRUE]
              /\ inv' = [inv EXCEPT ![i].logSheet = TRUE, ![i].sheetOpens = @ + 1,
                                    ![i].pc = "getStateSheet"]
         ELSE /\ inv' = [inv EXCEPT ![i] =
                   catch([@ EXCEPT !.sheetOpens = @ + 1], "getLogSheet")]
              /\ UNCHANGED logSheet
  /\ UNCHANGED <<stateSheet, started, lastFor, otherPrograms>>

\* as GetStateSheet, inserting a fresh sheet with its header on every call
GetStateSheet_resets(i) ==
  /\ inv[i].pc = "getStateSheet"
  /\ \E ok \in BOOLEAN :
       IF ok
         THEN /\ stateSheet' = [exists |-> TRUE, rows |-> <<StateHeaderRow>>]
              /\ inv' = [inv EXCEPT ![i].stateSheet = TRUE, ![i].sheetOpens = @ + 1,
                                    ![i].pc = "parse"]
         ELSE /\ inv' = [inv EXCEPT ![i] =
                   catch([@ EXCEPT !.sheetOpens = @ + 1], "getStateSheet")]
              /\ UNCHANGED stateSheet
  /\ UNCHANGED <<logSheet, started, lastFor, otherPrograms>>

\* lines 96-100: getOrCreateSheet for the state sheet, created with its header
GetStateSheet(i) ==
  /\ inv[i].pc = "getStateSheet"
  /\ \E ok \in BOOLEAN :
       IF ok
         THEN /\ stateSheet' = IF stateSheet.exists THEN stateSheet
                               ELSE [exists |-> TRUE, rows |-> <<StateHeaderRow>>]
              /\ inv' = [inv EXCEPT ![i].stateSheet = TRUE, ![i].sheetOpens = @ + 1,
                                    ![i].pc = "parse"]
         ELSE /\ inv' = [inv EXCEPT ![i] =
                   catch([@ EXCEPT !.sheetOpens = @ + 1], "getStateSheet")]
              /\ UNCHANGED stateSheet
  /\ UNCHANGED <<logSheet, started, lastFor, otherPrograms>>

\* lines 103-115: parse the event, require the page id, extract the current record
ParseEvent(i) ==
  /\ inv[i].pc = "parse"
  /\ \E e \in SpecEvents :
       LET webhookData == parseWebhookEvent(e)
           currentPageData == webhookData.notionPageData
       IN inv' = [inv EXCEPT ![i] =
            IF webhookData.isNull \/ ~Truthy(currentPageData.id)
              THEN catch([@ EXCEPT !.eventKind = e.kind], "parse")
              ELSE [@ EXCEPT !.eventKind = e.kind,
                             !.currentPageData = currentPageData,
                             !.pageId = currentPageData.id,
                             !.notionInfo = extractNotionInfo(currentPageData),
                             !.pc = "getPreviousState"]]
  /\ UNCHANGED <<stateSheet, logSheet, started, lastFor, otherPrograms>>

\* as GetPreviousState, persisting the current properties right after the read,
\* ahead of the notifications
GetPreviousState_writesFirst(i) ==
  /\ inv[i].pc = "getPreviousState"
  /\ LET previousState == getPreviousState(stateSheet.rows, inv[i].pageId)
     IN /\ stateSheet' =
             [stateSheet EXCEPT !.rows =
                updateCurrentState(@, inv[i].pageId, inv[i].currentPageData.properties,
                                   IF previousState.found THEN previousState.rowIndex
                                   ELSE -1)]
        /\ inv' = [inv EXCEPT ![i].stateReads = @ + 1,
                              ![i].data = stateSheet.rows,
                              ![i].previousState = previousState,
                              ![i].previousInfo =
                                IF previousState.found
                                  THEN extractNotionInfo(
                                         PreviousPageData(previousState.properties))
                                  ELSE NullInfo,
                              ![i].stateWrites = @ + 1,
                              ![i].stateWritten = TRUE,
                              ![i].pc = "notifyStatus"]
  /\ UNCHANGED <<logSheet, started, lastFor, otherPrograms>>

\* lines 118-125: read the state sheet (getValues may throw), find the previous
\* state and extract the previous record
GetPreviousState(i) ==
  /\ inv[i].pc = "getPreviousState"
  /\ \E ok \in BOOLEAN :
       LET previousState == getPreviousState(stateSheet.rows, inv[i].pageId)
           last == LastRowOf(stateSheet.rows, inv[i].pageId)
           corrupt == ok /\ last > 0 /\ stateSheet.rows[last].json.kind # "json"
       IN inv' = [inv EXCEPT ![i] =
            IF ~ok \/ previousState.raised
              THEN catch([@ EXCEPT !.stateReads = @ + 1, !.corrupt = corrupt],
                         "getPreviousState")
              ELSE [@ EXCEPT !.stateReads = @ + 1,
                             !.corrupt = corrupt,
                             !.data = stateSheet.rows,
                             !.readAfter = {j \in Procs : inv[j].stateWritten},
                             !.previousState = previousState,
                             !.previousInfo =
                               IF previousState.found
                                 THEN extractNotionInfo(
                                        PreviousPageData(previousState.properties))
                                 ELSE NullInfo,
                             !.pc = "notifyStatus"]]
  /\ UNCHANGED <<stateSheet, logSheet, started, lastFor, otherPrograms>>

\* lines 426-438 of handleNotifications
NotifyStatus(i) ==
  /\ inv[i].pc = "notifyStatus"
  /\ IF needsStatusNotification(inv[i].previousInfo, inv[i].notionInfo)
       THEN \E fetchResult \in FetchResults :
              LET message == createStatusChangeMessage(inv[i].previousInfo,
                                                       inv[i].notionInfo)
                  result == sendDiscordMessage(inv[i].config.discordUrl, fetchResult)
                  sent == [inv[i] EXCEPT
                             !.statusMessage = message,
                             !.fetched.status = IF result.fetched THEN fetchResult ELSE @,
                             !.httpCalls.status = @ + result.calls]
              IN inv' = [inv EXCEPT ![i] =
                   IF result.raised THEN catch(sent, "notifyStatus")
                   ELSE [sent EXCEPT
                           !.notificationResults =
                              Append(@, [type |-> TYPE_STATUS,
                                         status |-> result.status,
                                         error |-> result.error]),
                           !.pc = "notifySharoushi"]]
       ELSE inv' = [inv EXCEPT ![i].pc = "notifySharoushi"]
  /\ UNCHANGED <<stateSheet, logSheet, started, lastFor, otherPrograms>>

\* lines 440-458 of handleNotifications, then lines 134-139 of processWebhook
NotifySharoushi(i) ==
  /\ inv[i].pc = "notifySharoushi"
  /\ \E fetchResult \in FetchResults :
       LET needed == needsSharoushiNotification(inv[i].previousInfo, inv[i].notionInfo)
           message == createSharoushiUpdateMessage(inv[i].previousInfo,
                                                   inv[i].notionInfo)
           result == sendDiscordMessage(inv[i].config.discordUrlSharoushi, fetchResult)
           sent == IF needed
                     THEN [inv[i] EXCEPT
                             !.sharoushiMessage = message,
                             !.fetched.sharoushi = IF result.fetched THEN fetchResult ELSE @,
                             !.httpCalls.sharoushi = @ + result.calls]
                     ELSE inv[i]
           results == IF needed
                        THEN Append(inv[i].notificationResults,
                                    [type |-> TYPE_SHAROUSHI,
                                     status |-> result.status,
                                     error |-> result.error])
                        ELSE inv[i].notificationResults
       IN inv' = [inv EXCEPT ![i] =
            IF needed /\ result.raised THEN catch(sent, "notifySharoushi")
            ELSE [sent EXCEPT
                    !.handled = TRUE,
                    !.notificationResults = results,
                    !.discordSendStatus =
                       [k \in 1..Len(results) |-> <<results[k].type, results[k].status>>],
                    !.overallStatus = overallStatusAfterNotifications(@, results),
                    !.pc = "updateCurrentState"]]
  /\ UNCHANGED <<stateSheet, logSheet, started, lastFor, otherPrograms>>

\* lines 142-148: the write of the state sheet; setValue / appendRow may throw
UpdateCurrentState(i) ==
  /\ inv[i].pc = "updateCurrentState"
  /\ \E ok \in BOOLEAN :
       IF ok
         THEN /\ stateSheet' =
                   [stateSheet EXCEPT !.rows =
                      updateCurrentState(@, inv[i].pageId,
                                         inv[i].currentPageData.properties,
                                         IF inv[i].previousState.found
                                           THEN inv[i].previousState.rowIndex
                                           ELSE -1)]
              /\ inv' = [inv EXCEPT ![i].stateWrites = @ + 1,
                                    ![i].stateWritten = TRUE,
                                    ![i].wroteAfter = {j \in Procs : inv[j].stateWritten},
                                    ![i].pc = "finally"]
         ELSE /\ inv' = [inv EXCEPT ![i] =
                   catch([@ EXCEPT !.stateWrites = @ + 1], "updateCurrentState")]
              /\ UNCHANGED stateSheet
  /\ UNCHANGED <<logSheet, started, lastFor, otherPrograms>>

\* as LogToSheet, a failing append making the invocation fatal
LogToSheet_failureIsFatal(i) ==
  /\ inv[i].pc = "finally"
  /\ IF inv[i].logSheet
       THEN \E ok \in BOOLEAN :
              /\ inv' = [inv EXCEPT
                   ![i].auditAppends = @ + 1,
                   ![i].auditAppended = ok,
                   ![i].auditRow = auditRowOf(inv[i].notionInfo, inv[i].overallStatus,
                                              inv[i].discordSendStatus),
                   ![i].loggerFallback = ~ok,
                   ![i].overallStatus = IF ok THEN @ ELSE STATUS_FATAL,
                   ![i].pc = "return"]
       ELSE inv' = [inv EXCEPT ![i].loggerFallback = TRUE, ![i].pc = "return"]
  /\ UNCHANGED <<stateSheet, logSheet, started, lastFor, otherPrograms>>

\* as LogToSheet, appending without asking whether the log sheet was acquired
LogToSheet_unguarded(i) ==
  /\ inv[i].pc = "finally"
  /\ \E ok \in BOOLEAN :
       inv' = [inv EXCEPT
         ![i].auditAppends = @ + 1,
         ![i].auditAppended = ok,
         ![i].auditRow = auditRowOf(inv[i].notionInfo, inv[i].overallStatus,
                                    inv[i].discordSendStatus),
         ![i].loggerFallback = ~ok,
         ![i].pc = "return"]
  /\ UNCHANGED <<stateSheet, logSheet, started, lastFor, otherPrograms>>

\* lines 155-164 and logToSheet: one appendRow, its failure swallowed; without
\* a log sheet the trace goes to Logger only
LogToSheet(i) ==
  /\ inv[i].pc = "finally"
  /\ IF inv[i].logSheet
       THEN \E ok \in BOOLEAN :
              /\ inv' = [inv EXCEPT
                   ![i].auditAppends = @ + 1,
                   ![i].auditAppended = ok,
                   ![i].auditRow = auditRowOf(inv[i].notionInfo, inv[i].overallStatus,
                                              inv[i].discordSendStatus),
                   ![i].loggerFallback = ~ok,
                   ![i].pc = "return"]
       ELSE inv' = [inv EXCEPT ![i].loggerFallback = TRUE, ![i].pc = "return"]
  /\ UNCHANGED <<stateSheet, logSheet, started, lastFor, otherPrograms>>

\* lines 166-169 and 59-63: the object processWebhook returns, as doPost
\* serializes it into the JSON response
doPost(l) == [status |-> l.overallStatus, message |-> "Webhook processed."]

\* lines 166-169 and doPost: the response is returned and the invocation ends
Return(i) ==
  /\ inv[i].pc = "return"
  /\ inv' = [inv EXCEPT ![i] = [InitLocals EXCEPT !.response = doPost(inv[i])]]
  /\ lastFor' =
       IF inv[i].pageId \in PageIds
         THEN [lastFor EXCEPT ![inv[i].pageId] =
                 IF inv[i].stateWritten
                   THEN [updated |-> TRUE, data |-> inv[i].currentPageData,
                         corrupt |-> inv[i].corrupt]
                   ELSE NoLast]
         ELSE lastFor
  /\ UNCHANGED <<stateSheet, logSheet, started, otherPrograms>>

Next ==
  \E i \in Procs :
    \/ Begin(i)
    \/ LoadConfig(i)
    \/ GetLogSheet(i)
    \/ GetStateSheet(i)
    \/ ParseEvent(i)
    \/ GetPreviousState(i)
    \/ NotifyStatus(i)
    \/ NotifySharoushi(i)
    \/ UpdateCurrentState(i)
    \/ LogToSheet(i)
    \/ Return(i)

Spec == Init /\ [][Next]_vars

\* an invocation that has begun runs on: the script is synchronous and each
\* external call of a step either returns or raises, so a step that is
\* possible is eventually taken (the arrival of a webhook is not forced)
Run(i) ==
  \/ LoadConfig(i)
  \/ GetLogSheet(i)
  \/ GetStateSheet(i)
  \/ ParseEvent(i)
  \/ GetPreviousState(i)
  \/ NotifyStatus(i)
  \/ NotifySharoushi(i)
  \/ UpdateCurrentState(i)
  \/ LogToSheet(i)
  \/ Return(i)
FairSpec == Spec /\ \A i \in Procs : WF_vars(Run(i))

(***************************************************************************)
(* Overlapping invocations.  Apps Script runs each doPost in its own       *)
(* execution and the handler takes no lock (no LockService call), so the   *)
(* steps of two invocations interleave at their external calls.  The       *)
(* overlapping runs are explored in a world where no external call fails,  *)
(* both endpoints are configured and every payload carries a properties    *)
(* object; the sheets exist, and the state sheet may hold a row for "P1"   *)
(* that an earlier invocation wrote.                                       *)
(***************************************************************************)
OverlapScriptProperties ==
  [SPREADSHEET_ID |-> "sheet-id", LOG_SHEET_NAME |-> Null,
   DISCORD_URL |-> [isNull |-> FALSE, prefix |-> DISCORD_PREFIX, rest |-> "1/token"],
   DISCORD_URL_SHAROUSHI |->
     [isNull |-> FALSE, prefix |-> DISCORD_PREFIX, rest |-> "1/token"]]

\* the payloads differ in the assignee and in the liaison status
OverlapPageData ==
  {d \in SpecPageData : d.properties.kind = "object" /\ d.properties.status = "shoudanchuu"}

\* the row an earlier invocation for "P1" left
EarlierRow ==
  [pageId |-> "P1",
   json |-> CellOf(JSONstringify(
              [kind |-> "object", kigyoMei |-> "A-sha", status |-> "shoudanchuu",
               tanto |-> Undefined, sharoushi |-> Undefined]))]

InitOverlap ==
  /\ stateSheet \in {[exists |-> TRUE, rows |-> <<StateHeaderRow>>],
                      [exists |-> TRUE, rows |-> <<StateHeaderRow, EarlierRow>>]}
  /\ logSheet = [exists |-> TRUE]
  /\ inv = [i \in Procs |-> InitLocals]
  /\ started = 0
  /\ lastFor = [id \in PageIds |-> NoLast]
  /\ OtherProgramsIdle

\* what the world of the overlapping runs admits of an invocation
OverlapWorld ==
  \A i \in Procs :
    LET l == inv[i]
    IN /\ l.raisedAt = "none"
       /\ l.pc \notin {"idle", "loadConfig"} => l.scriptProperties = OverlapScriptProperties
       /\ l.pageId # Undefined => l.currentPageData \in OverlapPageData
       /\ l.fetched.status \in {"none", "ok"}
       /\ l.fetched.sharoushi \in {"none", "ok"}
       /\ ~l.loggerFallback

\* doPost is triggered while another invocation may be running
BeginOverlapping(i) ==
  /\ started < MaxInvocations
  /\ inv[i].pc = "idle"
  /\ inv' = [inv EXCEPT ![i] =
       [InitLocals EXCEPT !.pc = "loadConfig",
                          !.before = [state |-> stateSheet, log |-> logSheet]]]
  /\ started' = started + 1
  /\ UNCHANGED <<stateSheet, logSheet, lastFor, otherPrograms>>

NextOverlap ==
  \E i \in Procs :
    \/ BeginOverlapping(i)
    \/ LoadConfig(i) /\ OverlapWorld'
    \/ GetLogSheet(i) /\ OverlapWorld'
    \/ GetStateSheet(i) /\ OverlapWorld'
    \/ ParseEvent(i) /\ OverlapWorld'
    \/ GetPreviousState(i) /\ OverlapWorld'
    \/ NotifyStatus(i) /\ OverlapWorld'
    \/ NotifySharoushi(i) /\ OverlapWorld'
    \/ UpdateCurrentState(i) /\ OverlapWorld'
    \/ LogToSheet(i) /\ OverlapWorld'
    \/ Return(i)

SpecOverlap == InitOverlap /\ [][NextOverlap]_vars

(***************************************************************************)
(* getPreviousState by itself: the call of line 118 on state sheets of up  *)
(* to MaxRows data rows, written by updateCurrentState for either page id  *)
(* (a payload without properties leaves a blank cell), several rows for    *)
(* one id included, and for a page id that may equal the header text.      *)
(***************************************************************************)
MaxRows == 3

LookupProperties ==
  {UndefinedProperties,
   [kind |-> "object", kigyoMei |-> "A-sha", status |-> "shoudanchuu",
    tanto |-> Undefined, sharoushi |-> Undefined],
   [kind |-> "object", kigyoMei |-> "A-sha", status |-> "shoudanchuu",
    tanto |-> "Tanaka", sharoushi |-> "renkeizumi"]}
LookupRows == [pageId : PageIds, json : {CellOf(JSONstringify(p)) : p \in LookupProperties}]
LookupSheets ==
  {<<StateHeaderRow>> \o t : t \in UNION {[1..n -> LookupRows] : n \in 0..MaxRows}}
LookupPageData(id) ==
  [id |-> id,
   properties |-> [kind |-> "object", kigyoMei |-> "A-sha", status |-> "shoudanchuu",
                   tanto |-> "Tanaka", sharoushi |-> Undefined],
   url |-> "https://www.notion.so/p",
   last_edited_time |-> "2025-06-01T03:04:05.000Z"]

InitLookup ==
  /\ \E rows \in LookupSheets : stateSheet = [exists |-> TRUE, rows |-> rows]
  /\ logSheet = [exists |-> TRUE]
  /\ \E id \in PageIds \cup {STATE_HEADERS[1]} :
       inv = [i \in Procs |->
                IF i = 1
                  THEN [InitLocals EXCEPT
                          !.pc = "getPreviousState",
                          !.before = [state |-> stateSheet, log |-> logSheet],
                          !.scriptProperties = OverlapScriptProperties,
                          !.config = loadConfig(OverlapScriptProperties).config,
                          !.sheetOpens = 2,
                          !.logSheet = TRUE,
                          !.stateSheet = TRUE,
                          !.eventKind = "page",
                          !.currentPageData = LookupPageData(id),
                          !.pageId = id,
                          !.notionInfo = extractNotionInfo(LookupPageData(id))]
                  ELSE InitLocals]
  /\ started = 1
  /\ lastFor = [id \in PageIds |-> NoLast]
  /\ OtherProgramsIdle

NextLookup == \E i \in Procs : GetPreviousState(i)

SpecLookup == InitLookup /\ [][NextLookup]_vars

(***************************************************************************)
(* Sequential invocations over a state sheet in which the bottom-most row  *)
(* of page "P1" has a blank payload cell: what updateCurrentState leaves,  *)
(* by appendRow or by setValue, for a payload without properties.          *)
(***************************************************************************)
BlankRow ==
  [pageId |-> "P1", json |-> CellOf(JSONstringify(UndefinedProperties))]
OtherPageRow ==
  [pageId |-> "P2",
   json |-> CellOf(JSONstringify(
              [kind |-> "object", kigyoMei |-> "A-sha", status |-> "shoudanchuu",
               tanto |-> Undefined, sharoushi |-> Undefined]))]
RecoverSheets ==
  {<<StateHeaderRow, BlankRow>>,
   <<StateHeaderRow, EarlierRow, BlankRow>>,
   <<StateHeaderRow, BlankRow, OtherPageRow>>}

InitRecover ==
  /\ \E rows \in RecoverSheets : stateSheet = [exists |-> TRUE, rows |-> rows]
  /\ logSheet = [exists |-> TRUE]
  /\ inv = [i \in Procs |-> InitLocals]
  /\ started = 0
  /\ lastFor = [id \in PageIds |-> NoLast]
  /\ OtherProgramsIdle

SpecRecover == InitRecover /\ [][Next]_vars

(***************************************************************************)
(* extractNotionInfo by itself: the call of line 114 (and of lines 120-124)*)
(* on every page data object of the domain, whatever its fields are.       *)
(***************************************************************************)
InitExtract ==
  /\ stateSheet = [exists |-> FALSE, rows |-> <<>>]
  /\ logSheet = [exists |-> FALSE]
  /\ \E d \in PageData :
       inv = [i \in Procs |->
                IF i = 1 THEN [InitLocals EXCEPT !.pc = "extract",
                                                 !.currentPageData = d]
                ELSE InitLocals]
  /\ started = 1
  /\ lastFor = [id \in PageIds |-> NoLast]
  /\ OtherProgramsIdle

ExtractNotionInfo(i) ==
  /\ inv[i].pc = "extract"
  /\ inv' = [inv EXCEPT ![i].notionInfo = extractNotionInfo(inv[i].currentPageData),
                        ![i].pc = "extracted"]
  /\ UNCHANGED <<stateSheet, logSheet, started, lastFor, otherPrograms>>

NextExtract == \E i \in Procs : ExtractNotionInfo(i)

SpecExtract == InitExtract /\ [][NextExtract]_vars

(***************************************************************************)
(* Vocabulary of the properties.                                           *)
(***************************************************************************)
\* handleNotifications called sendDiscordMessage for the channel
Dispatched(l, type) ==
  \E k \in 1..Len(l.notificationResults) : l.notificationResults[k].type = type
\* the results of the channel
ResultsOf(l, type) ==
  {k \in 1..Len(l.notificationResults) : l.notificationResults[k].type = type}
\* the invocation is past its finally block: nothing is left but the return
Finished(l) == l.pc = "return"
\* handleNotifications has returned and the state write has not begun: the
\* state sheet is still the one getPreviousState read
Decided(l) == l.pc = "updateCurrentState"
\* the URL passes the test of sendDiscordMessage
ValidUrl(u) == ~u.isNull /\ u.prefix = DISCORD_PREFIX
\* the record stored for the page id: extracted from the payload of the
\* bottom-most row carrying the id
StoredInfo(rows, pageId) ==
  extractNotionInfo(PreviousPageData(rows[LastRowOf(rows, pageId)].json.v))
\* a row for the page id exists and its payload deserializes
HasStored(rows, pageId) ==
  /\ LastRowOf(rows, pageId) > 0
  /\ rows[LastRowOf(rows, pageId)].json.kind = "json"

(***************************************************************************)
(* C1.  Idempotence over sequential invocations: when the latest completed *)
(* invocation for a page id wrote the state and the next invocation for    *)
(* that id carries the identical page data, the next invocation calls      *)
(* sendDiscordMessage for neither channel and makes no HTTP call.          *)
(***************************************************************************)
C1_Idempotent ==
  \A i \in Procs :
    (/\ inv[i].handled
     /\ inv[i].pageId \in PageIds
     /\ lastFor[inv[i].pageId].updated
     /\ lastFor[inv[i].pageId].data = inv[i].currentPageData)
    => /\ inv[i].notificationResults = <<>>
       /\ inv[i].httpCalls = [status |-> 0, sharoushi |-> 0]

\* a second invocation repeats a payload that has a status, an assignee and a
\* liaison status, and notifies nothing
C1_Witness ==
  \E i \in Procs :
    /\ inv[i].handled
    /\ inv[i].pageId \in PageIds
    /\ lastFor[inv[i].pageId].updated
    /\ lastFor[inv[i].pageId].data = inv[i].currentPageData
    /\ Truthy(inv[i].notionInfo.status)
    /\ Truthy(inv[i].notionInfo.tanto)
    /\ Truthy(inv[i].notionInfo.sharoushi)
    /\ inv[i].notificationResults = <<>>

(***************************************************************************)
(* C2.  Existing page: when the state sheet holds a parseable payload for  *)
(* the page id, the status/assignee notification is dispatched iff the     *)
(* status or the assignee of the stored record differs from the current    *)
(* one, and the liaison notification iff the liaison status differs; the   *)
(* two decisions are independent.                                          *)
(***************************************************************************)
C2_ExistingPageDecisions ==
  \A i \in Procs :
    (Decided(inv[i]) /\ HasStored(stateSheet.rows, inv[i].pageId))
    => LET prev == StoredInfo(stateSheet.rows, inv[i].pageId)
           cur == inv[i].notionInfo
       IN /\ Dispatched(inv[i], TYPE_STATUS)
               <=> (prev.status # cur.status \/ prev.tanto # cur.tanto)
          /\ Dispatched(inv[i], TYPE_SHAROUSHI)
               <=> (prev.sharoushi # cur.sharoushi)
          /\ Len(inv[i].notificationResults) <= 2

\* only the liaison status changes, from null to a value: exactly the liaison
\* message is dispatched
C2_Witness ==
  \E i \in Procs :
    /\ Decided(inv[i])
    /\ HasStored(stateSheet.rows, inv[i].pageId)
    /\ LET prev == StoredInfo(stateSheet.rows, inv[i].pageId)
           cur == inv[i].notionInfo
       IN /\ prev.sharoushi = Null /\ Truthy(cur.sharoushi)
          /\ prev.status = cur.status /\ Truthy(cur.status)
          /\ prev.tanto = cur.tanto /\ Truthy(cur.tanto)
    /\ Len(inv[i].notificationResults) = 1
    /\ inv[i].notificationResults[1].type = TYPE_SHAROUSHI

(***************************************************************************)
(* C3.  New page: when previousInfo is null, the status/assignee           *)
(* notification is dispatched iff the current status or assignee is        *)
(* non-null, the liaison notification iff the current liaison status is    *)
(* non-null; with all three null nothing is dispatched.                    *)
(***************************************************************************)
C3_NewPageDecisions ==
  \A i \in Procs :
    (Decided(inv[i]) /\ inv[i].previousInfo.isNull)
    => LET cur == inv[i].notionInfo
       IN /\ Dispatched(inv[i], TYPE_STATUS)
               <=> (cur.status # Null \/ cur.tanto # Null)
          /\ Dispatched(inv[i], TYPE_SHAROUSHI) <=> (cur.sharoushi # Null)
          /\ (cur.status = Null /\ cur.tanto = Null /\ cur.sharoushi = Null)
               => inv[i].notificationResults = <<>>

\* a first sighting with an assignee only: the status/assignee message alone
C3_Witness ==
  \E i \in Procs :
    /\ Decided(inv[i])
    /\ inv[i].previousInfo.isNull
    /\ LastRowOf(stateSheet.rows, inv[i].pageId) = 0
    /\ inv[i].notionInfo.status = Null
    /\ inv[i].notionInfo.tanto # Null
    /\ inv[i].notionInfo.sharoushi = Null
    /\ Len(inv[i].notificationResults) = 1
    /\ inv[i].notificationResults[1].type = TYPE_STATUS

(***************************************************************************)
(* C4.  createStatusChangeMessage with a non-null previous record: an      *)
(* unchanged status is rendered with the plain line holding the current    *)
(* value, an unchanged assignee likewise, and a field is rendered with the *)
(* arrow line only if its previous and current values differ.              *)
(***************************************************************************)
C4_UnchangedFieldPlainLine ==
  \A i \in Procs :
    (inv[i].statusMessage.kind = "status" /\ ~inv[i].previousInfo.isNull)
    => LET prev == inv[i].previousInfo
           cur == inv[i].notionInfo
           m == inv[i].statusMessage
       IN /\ prev.status = cur.status
               => m.statusLine = PlainLine(IF cur.status = Null THEN na ELSE cur.status)
          /\ prev.tanto = cur.tanto
               => m.tantoLine = PlainLine(IF cur.tanto = Null THEN na ELSE cur.tanto)
          /\ m.statusLine.arrow => prev.status # cur.status
          /\ m.tantoLine.arrow => prev.tanto # cur.tanto

\* the assignee changed and the status did not: arrow line for the assignee,
\* plain line for the status
C4_Witness ==
  \E i \in Procs :
    /\ inv[i].statusMessage.kind = "status"
    /\ ~inv[i].previousInfo.isNull
    /\ inv[i].previousInfo.status = inv[i].notionInfo.status
    /\ inv[i].notionInfo.status # Null
    /\ ~inv[i].statusMessage.statusLine.arrow
    /\ inv[i].statusMessage.tantoLine.arrow

(***************************************************************************)
(* C5.  Every invocation that acquired the log sheet calls the append of   *)
(* the audit row exactly once, whichever step raised or succeeded: never   *)
(* before the finally block, never twice, never zero times.                *)
(***************************************************************************)
C5_OneAuditAppend ==
  \A i \in Procs :
    /\ inv[i].auditAppends <= 1
    /\ inv[i].pc \notin {"idle", "return"} => inv[i].auditAppends = 0
    /\ (Finished(inv[i]) /\ inv[i].logSheet) => inv[i].auditAppends = 1

\* an invocation whose state write raised has appended its one audit row
C5_Witness ==
  \E i \in Procs :
    /\ Finished(inv[i])
    /\ inv[i].logSheet
    /\ inv[i].raisedAt = "updateCurrentState"
    /\ inv[i].auditAppends = 1
    /\ inv[i].auditAppended

(***************************************************************************)
(* C6.  Every invocation that parsed a page id and read the previous state *)
(* issues the write of the state sheet exactly once, with the serialized   *)
(* current properties, for every combination of notification outcomes; a   *)
(* write that returned leaves them in the row of the page id (the row      *)
(* found by the read, or else the row appended last).                      *)
(***************************************************************************)
C6_StateWrittenOnce ==
  \A i \in Procs :
    /\ inv[i].stateWrites <= 1
    /\ (Finished(inv[i]) /\ inv[i].stateReads = 1
          /\ inv[i].raisedAt # "getPreviousState")
       => /\ inv[i].stateWrites = 1
          /\ inv[i].stateWritten <=> inv[i].raisedAt = "none"
          /\ inv[i].stateWritten
               => LET r == IF inv[i].previousState.found
                             THEN inv[i].previousState.rowIndex
                             ELSE Len(stateSheet.rows)
                  IN /\ r >= 2
                     /\ stateSheet.rows[r].pageId = inv[i].pageId
                     /\ stateSheet.rows[r].json =
                          CellOf(JSONstringify(inv[i].currentPageData.properties))

\* the status/assignee delivery failed, the liaison one was skipped, and the
\* state was written
C6_Witness ==
  \E i \in Procs :
    /\ Finished(inv[i])
    /\ Len(inv[i].notificationResults) = 2
    /\ inv[i].notificationResults[1].status = SEND_ERROR
    /\ inv[i].notificationResults[2].status = SEND_SKIPPED
    /\ inv[i].stateWrites = 1
    /\ inv[i].stateWritten
    /\ stateSheet.rows[Len(stateSheet.rows)].json =
         CellOf(JSONstringify(inv[i].currentPageData.properties))

(***************************************************************************)
(* C7 as stated.  When the stored payload of the row matched for the page  *)
(* id does not deserialize, the invocation ends with a non-fatal overall   *)
(* status.                                                                 *)
(***************************************************************************)
C7_Original ==
  \A i \in Procs :
    (Finished(inv[i]) /\ inv[i].corrupt) => inv[i].overallStatus # STATUS_FATAL

(***************************************************************************)
(* C7 as amended.  When the stored payload of the row matched for the page *)
(* id does not deserialize, getPreviousState returns null without raising, *)
(* the invocation decides under the new-page rules, issues the state write *)
(* and the audit append, and its overall status is fatal only if the state *)
(* write raised.                                                           *)
(***************************************************************************)
C7_CorruptIsNewPage ==
  \A i \in Procs :
    inv[i].corrupt
    => /\ inv[i].raisedAt # "getPreviousState"
       /\ ~inv[i].previousState.found
       /\ inv[i].previousInfo.isNull
       /\ inv[i].handled
            => /\ Dispatched(inv[i], TYPE_STATUS)
                    <=> (inv[i].notionInfo.status # Null \/ inv[i].notionInfo.tanto # Null)
               /\ Dispatched(inv[i], TYPE_SHAROUSHI)
                    <=> (inv[i].notionInfo.sharoushi # Null)
       /\ Finished(inv[i])
            => /\ inv[i].handled
               /\ inv[i].stateWrites = 1
               /\ inv[i].auditAppends = 1
               /\ inv[i].overallStatus = STATUS_FATAL
                    <=> inv[i].raisedAt = "updateCurrentState"

\* a corrupt entry, a notification dispatched as for a new page, the state
\* written, the audit row appended, a non-fatal end
C7_Witness ==
  \E i \in Procs :
    /\ Finished(inv[i])
    /\ inv[i].corrupt
    /\ Dispatched(inv[i], TYPE_STATUS)
    /\ inv[i].statusMessage.statusLine = ArrowLine(na, inv[i].notionInfo.status)
    /\ inv[i].stateWritten
    /\ inv[i].auditAppends = 1
    /\ inv[i].overallStatus = STATUS_SUCCESS

(***************************************************************************)
(* C8.  A notification whose endpoint is not set or lacks the expected     *)
(* prefix gets the skip outcome with error null and no HTTP call; an       *)
(* invocation in which every dispatched notification was skipped and no    *)
(* step raised ends with the overall status "成功".                        *)
(***************************************************************************)
C8_SkipIsSuccess ==
  \A i \in Procs :
    LET l == inv[i]
        skipped(type, url, calls) ==
          (Dispatched(l, type) /\ ~ValidUrl(url))
          => /\ \A k \in ResultsOf(l, type) :
                  /\ l.notificationResults[k].status = SEND_SKIPPED
                  /\ l.notificationResults[k].error = Null
             /\ calls = 0
    IN /\ skipped(TYPE_STATUS, l.config.discordUrl, l.httpCalls.status)
       /\ skipped(TYPE_SHAROUSHI, l.config.discordUrlSharoushi, l.httpCalls.sharoushi)
       /\ (/\ Finished(l)
           /\ l.raisedAt = "none"
           /\ \A k \in 1..Len(l.notificationResults) :
                l.notificationResults[k].status = SEND_SKIPPED)
          => l.overallStatus = STATUS_SUCCESS

\* both notifications warranted, one endpoint not set and the other with a
\* foreign prefix: both skipped, overall status "成功"
C8_Witness ==
  \E i \in Procs :
    /\ Finished(inv[i])
    /\ inv[i].raisedAt = "none"
    /\ inv[i].config.discordUrl.isNull
    /\ ~inv[i].config.discordUrlSharoushi.isNull
    /\ ~ValidUrl(inv[i].config.discordUrlSharoushi)
    /\ Len(inv[i].notificationResults) = 2
    /\ \A k \in 1..2 : inv[i].notificationResults[k].status = SEND_SKIPPED
    /\ inv[i].httpCalls = [status |-> 0, sharoushi |-> 0]
    /\ inv[i].overallStatus = STATUS_SUCCESS

(***************************************************************************)
(* C9.  sendDiscordMessage never raises and returns exactly one outcome    *)
(* per call: "送信エラー" with the error text when the fetch to a valid    *)
(* endpoint threw, "送信成功" with error null when it returned.            *)
(***************************************************************************)
C9_SendNeverRaises ==
  \A i \in Procs :
    LET l == inv[i]
        outcome(type, message, fetched, step) ==
          message.kind # "none"
          => /\ l.raisedAt # step
             /\ (l.pc # step) => Cardinality(ResultsOf(l, type)) = 1
             /\ \A k \in ResultsOf(l, type) :
                  LET r == l.notificationResults[k]
                  IN /\ fetched = "ok" => (r.status = SEND_OK /\ r.error = Null)
                     /\ fetched \notin {"ok", "none"}
                          => (r.status = SEND_ERROR /\ r.error = fetched)
                     /\ fetched = "none" => r.status = SEND_SKIPPED
    IN /\ outcome(TYPE_STATUS, l.statusMessage, l.fetched.status, "notifyStatus")
       /\ outcome(TYPE_SHAROUSHI, l.sharoushiMessage, l.fetched.sharoushi,
                  "notifySharoushi")
       /\ l.raisedAt \notin {"notifyStatus", "notifySharoushi"}

\* one delivery threw and one returned
C9_Witness ==
  \E i \in Procs :
    /\ Len(inv[i].notificationResults) = 2
    /\ inv[i].fetched.status = "ok"
    /\ inv[i].notificationResults[1].status = SEND_OK
    /\ inv[i].fetched.sharoushi \notin {"ok", "none"}
    /\ inv[i].notificationResults[2].status = SEND_ERROR
    /\ inv[i].notificationResults[2].error = inv[i].fetched.sharoushi

(***************************************************************************)
(* C10.  An invocation in which a dispatched notification ended in a send  *)
(* error and no step raised ends with the overall status "一部エラー"; a   *)
(* send error on the status/assignee channel prevents neither the liaison  *)
(* attempt, nor the state write, nor the audit append.                     *)
(***************************************************************************)
C10_SendErrorIsPartial ==
  \A i \in Procs :
    LET l == inv[i]
        statusFailed == l.fetched.status \notin {"ok", "none"}
    IN /\ (/\ Finished(l)
           /\ l.raisedAt = "none"
           /\ \E k \in 1..Len(l.notificationResults) :
                l.notificationResults[k].status = SEND_ERROR)
          => l.overallStatus = STATUS_PARTIAL
       /\ (Finished(l) /\ statusFailed)
          => /\ needsSharoushiNotification(l.previousInfo, l.notionInfo)
                  => Dispatched(l, TYPE_SHAROUSHI)
             /\ ValidUrl(l.config.discordUrlSharoushi) /\ Dispatched(l, TYPE_SHAROUSHI)
                  => l.httpCalls.sharoushi = 1
             /\ l.stateWrites = 1
             /\ l.logSheet /\ l.auditAppends = 1

\* the status/assignee delivery threw, the liaison delivery was made, the
\* state was written, the audit row appended, overall status "一部エラー"
C10_Witness ==
  \E i \in Procs :
    /\ Finished(inv[i])
    /\ inv[i].raisedAt = "none"
    /\ inv[i].fetched.status \notin {"ok", "none"}
    /\ inv[i].fetched.sharoushi = "ok"
    /\ Len(inv[i].notificationResults) = 2
    /\ inv[i].stateWritten
    /\ inv[i].auditAppended
    /\ inv[i].overallStatus = STATUS_PARTIAL

\* the events parseWebhookEvent or the id check of processWebhook reject
Rejected(l) == l.raisedAt = "parse"

(***************************************************************************)
(* C11.  An invocation whose inbound event is absent, has no               *)
(* postData.contents, has a body that is not valid JSON, has no data       *)
(* member, or has a data object without an id ends with the overall status *)
(* "致命的エラー" and still appends exactly one audit row, whose company,  *)
(* status and assignee fields are the "N/A" placeholders.                  *)
(***************************************************************************)
C11_RejectedEventIsFatalAndAudited ==
  \A i \in Procs :
    LET l == inv[i]
    IN /\ (l.pc \in {"finally", "return"}
           /\ l.eventKind \in {"noEvent", "noPostData", "notJson", "noData"})
          => Rejected(l)
       /\ (l.pc \in {"finally", "return"} /\ l.eventKind = "page"
           /\ l.pageId \notin PageIds)
          => Rejected(l)
       /\ Rejected(l) => /\ l.overallStatus = STATUS_FATAL
                         /\ l.notionInfo.isNull
                         /\ l.notificationResults = <<>>
                         /\ l.stateWrites = 0
       /\ (Rejected(l) /\ Finished(l))
          => /\ l.auditAppends = 1
             /\ l.auditRow.kigyoMei = "N/A"
             /\ l.auditRow.status = "N/A"
             /\ l.auditRow.tanto = "N/A"
             /\ l.auditRow.overallStatus = STATUS_FATAL

\* a request without postData.contents was rejected and its audit row appended
C11_Witness ==
  \E i \in Procs :
    /\ Finished(inv[i])
    /\ inv[i].eventKind = "noPostData"
    /\ inv[i].raisedAt = "parse"
    /\ inv[i].auditAppended
    /\ inv[i].auditRow.kigyoMei = "N/A"

(***************************************************************************)
(* C12.  When the spreadsheet identifier is not configured the invocation  *)
(* aborts before any table access (no sheet is opened or created, no audit *)
(* row and no state row is written), sends no notification and returns the *)
(* overall status "致命的エラー"; the absence of the log sheet name or of   *)
(* either endpoint never makes loadConfig fail.                            *)
(***************************************************************************)
C12_MissingSpreadsheetIdAborts ==
  \A i \in Procs :
    LET l == inv[i]
        loaded == l.pc \notin {"idle", "loadConfig"}
    IN /\ loaded => (l.raisedAt = "loadConfig"
                       <=> ~Truthy(l.scriptProperties.SPREADSHEET_ID))
       /\ (loaded /\ ~Truthy(l.scriptProperties.SPREADSHEET_ID))
          => /\ l.sheetOpens = 0
             /\ ~l.logSheet /\ ~l.stateSheet
             /\ l.stateReads = 0 /\ l.stateWrites = 0
             /\ l.auditAppends = 0
             /\ l.httpCalls.status = 0 /\ l.httpCalls.sharoushi = 0
             /\ l.notificationResults = <<>>
             /\ l.overallStatus = STATUS_FATAL

\* the second invocation had a log sheet name and an endpoint configured and
\* no spreadsheet id: it has returned without a log sheet to append to
C12_Witness ==
  /\ started = 2
  /\ \E i \in Procs :
       /\ Finished(inv[i])
       /\ inv[i].raisedAt = "loadConfig"
       /\ inv[i].scriptProperties.LOG_SHEET_NAME # Null
       /\ ~inv[i].scriptProperties.DISCORD_URL.isNull
       /\ inv[i].loggerFallback

\* some notification outcome of the invocation carries an error
SomeSendError(l) ==
  \E k \in 1..Len(l.notificationResults) : l.notificationResults[k].error # Null

(***************************************************************************)
(* C13.  The overall status an invocation returns is one of "成功",        *)
(* "一部エラー", "致命的エラー": it is "致命的エラー" exactly when some step  *)
(* of the invocation raised; otherwise "一部エラー" exactly when at least  *)
(* one notification outcome carries an error; otherwise "成功".  A raise   *)
(* after a notification failure yields "致命的エラー", not "一部エラー".    *)
(***************************************************************************)
C13_OverallStatus ==
  \A i \in Procs :
    LET l == inv[i]
    IN Finished(l) =>
         /\ l.overallStatus \in {STATUS_SUCCESS, STATUS_PARTIAL, STATUS_FATAL}
         /\ l.overallStatus = STATUS_FATAL <=> l.raisedAt # "none"
         /\ l.raisedAt = "none"
              => (l.overallStatus = STATUS_PARTIAL <=> SomeSendError(l))
         /\ (l.raisedAt = "none" /\ ~SomeSendError(l))
              => l.overallStatus = STATUS_SUCCESS
         /\ l.auditAppends = 1 => l.auditRow.overallStatus = l.overallStatus

\* a delivery failed and the state write after it raised: the invocation
\* returns "致命的エラー"
C13_Witness ==
  \E i \in Procs :
    /\ Finished(inv[i])
    /\ SomeSendError(inv[i])
    /\ inv[i].raisedAt = "updateCurrentState"
    /\ inv[i].overallStatus = STATUS_FATAL

\* the state rows (header excluded) that carry the page id
RowsFor(rows, pageId) == {r \in 2..Len(rows) : rows[r].pageId = pageId}

(***************************************************************************)
(* C14.  Over sequential invocations that start from a state table holding *)
(* only the header row, the table holds at most one row per page           *)
(* identifier, whatever the payloads were (payloads without a properties   *)
(* map included): the first sighting creates the row, later sightings      *)
(* update it in place.                                                     *)
(***************************************************************************)
C14_OneRowPerPageId ==
  \A pageId \in PageIds : Cardinality(RowsFor(stateSheet.rows, pageId)) <= 1

\* invocation i makes its state write in this step
WritesState(i) == inv[i].pc = "updateCurrentState" /\ inv'[i].stateWritten

(***************************************************************************)
(* C15.  updateCurrentState changes only what it must: with the index of   *)
(* an existing row it overwrites that row's payload cell only (its key,    *)
(* every other row and the number of rows stay); with row index -1 it      *)
(* appends exactly one row [page id, serialized properties] and leaves the *)
(* existing rows as they are.  No step of the handler deletes or reorders  *)
(* a state row.                                                            *)
(***************************************************************************)
C15_UpdateFrame ==
  [][LET rows == stateSheet.rows
         after == stateSheet'.rows
     IN /\ Len(after) >= Len(rows)
        /\ \A r \in 1..Len(rows) :
             /\ after[r].pageId = rows[r].pageId
             /\ after[r] # rows[r]
                  => \E i \in Procs : /\ WritesState(i)
                                      /\ inv[i].previousState.found
                                      /\ inv[i].previousState.rowIndex = r
        /\ \A i \in Procs :
             WritesState(i) =>
               LET cell == CellOf(JSONstringify(inv[i].currentPageData.properties))
               IN IF inv[i].previousState.found
                    THEN /\ inv[i].previousState.rowIndex \in 2..Len(rows)
                         /\ Len(after) = Len(rows)
                         /\ after[inv[i].previousState.rowIndex].json = cell
                    ELSE after = Append(rows, [pageId |-> inv[i].pageId, json |-> cell])
        /\ (\A i \in Procs : inv[i].pc \notin {"updateCurrentState", "getStateSheet"})
             => after = rows]_vars

\* an invocation has replaced the payload of its page's row by a different
\* one, below the header and with no row added
C15_Witness ==
  \E i \in Procs :
    /\ Finished(inv[i])
    /\ inv[i].stateWritten
    /\ inv[i].previousState.found
    /\ inv[i].previousState.rowIndex = 2
    /\ Len(stateSheet.rows) = 2
    /\ stateSheet.rows[2].json.v # inv[i].previousState.properties
    /\ stateSheet.rows[2].json.v = inv[i].currentPageData.properties

\* getPreviousState on the table as it is now, and the record extracted from
\* what it returns (lines 118-125)
ReadBack(pageId) == getPreviousState(stateSheet.rows, pageId)
ReadBackInfo(pageId) == extractNotionInfo(PreviousPageData(ReadBack(pageId).properties))
\* the fields of the properties map agree in the two records
SameBusinessFields(a, b) ==
  /\ a.kigyoMei = b.kigyoMei
  /\ a.status = b.status
  /\ a.tanto = b.tanto
  /\ a.sharoushi = b.sharoushi

\* C16 as stated: after updateCurrentState has persisted the properties of a
\* page data object, getPreviousState followed by extractNotionInfo yields the
\* company name, status, assignee, liaison status and url that extraction
\* from the original page data yields.
C16_Original ==
  \A i \in Procs :
    LET l == inv[i]
    IN (Finished(l) /\ l.stateWritten)
         => /\ ReadBack(l.pageId).found
            /\ SameBusinessFields(ReadBackInfo(l.pageId), l.notionInfo)
            /\ ReadBackInfo(l.pageId).pageUrl = l.notionInfo.pageUrl

(***************************************************************************)
(* C16.  Round trip through the state store: after updateCurrentState has  *)
(* persisted the properties of a page data object that has a properties    *)
(* member, getPreviousState for the page id returns those properties and   *)
(* extractNotionInfo yields from them the company name, status, assignee   *)
(* and liaison status of the original extraction; the url is not stored    *)
(* and reads back as "URL不明".  For page data without a properties member  *)
(* the stored cell does not deserialize and getPreviousState returns null. *)
(***************************************************************************)
C16_RoundTripOfProperties ==
  \A i \in Procs :
    LET l == inv[i]
    IN (Finished(l) /\ l.stateWritten)
         => IF l.currentPageData.properties.kind = "undefined"
              THEN ~ReadBack(l.pageId).found /\ ~ReadBack(l.pageId).raised
              ELSE /\ ReadBack(l.pageId).found
                   /\ ReadBack(l.pageId).properties = l.currentPageData.properties
                   /\ SameBusinessFields(ReadBackInfo(l.pageId), l.notionInfo)
                   /\ ReadBackInfo(l.pageId).pageUrl = URL_UNKNOWN
                   /\ ReadBackInfo(l.pageId).lastEditedTime = TIME_UNKNOWN

\* an invocation has overwritten the row of its page with properties that
\* carry all four fields, and they read back
C16_Witness ==
  \E i \in Procs :
    /\ Finished(inv[i])
    /\ inv[i].stateWritten
    /\ inv[i].previousState.found
    /\ inv[i].currentPageData.properties.kind = "object"
    /\ inv[i].currentPageData.properties # inv[i].previousState.properties
    /\ inv[i].notionInfo.status # Null
    /\ inv[i].notionInfo.tanto # Null
    /\ inv[i].notionInfo.sharoushi # Null
    /\ ReadBack(inv[i].pageId).found
    /\ SameBusinessFields(ReadBackInfo(inv[i].pageId), inv[i].notionInfo)

\* invocations i and j carry the same page id, both have read and written the
\* state sheet, each read it before the other wrote, and both read the same rows
BothReadFirst(i, j) ==
  /\ i # j
  /\ inv[i].stateWritten /\ inv[j].stateWritten
  /\ inv[i].pageId = inv[j].pageId
  /\ j \notin inv[i].readAfter /\ i \notin inv[j].readAfter
  /\ inv[i].data = inv[j].data
\* the rows the invocation read held a row for its page id
ExistedAtRead(l) == RowsFor(l.data, l.pageId) # {}
\* the payload cell the invocation writes
CellWritten(l) == CellOf(JSONstringify(l.currentPageData.properties))

BottomRow(rows, pageId) ==
  CHOOSE r \in RowsFor(rows, pageId) : \A q \in RowsFor(rows, pageId) : q <= r

C19_NoRetries ==
  \A i \in Procs :
    LET l == inv[i]
    IN /\ l.httpCalls.status \in {0, 1}
       /\ l.httpCalls.sharoushi \in {0, 1}
       /\ l.stateReads \in {0, 1}
       /\ l.stateWrites \in {0, 1}
       /\ l.auditAppends \in {0, 1}
       /\ l.fetched.status \notin {"ok", "none"} => l.httpCalls.status = 1
       /\ l.fetched.sharoushi \notin {"ok", "none"} => l.httpCalls.sharoushi = 1
       /\ l.raisedAt = "getPreviousState" => l.stateReads = 1 /\ l.stateWrites = 0
       /\ l.raisedAt = "updateCurrentState" => l.stateReads = 1 /\ l.stateWrites = 1
       /\ (Finished(l) /\ l.logSheet /\ l.loggerFallback) => l.auditAppends = 1

\* both deliveries, the state write and the audit append of one invocation
\* failed, and each was called once
C19_Witness ==
  \E i \in Procs :
    /\ Finished(inv[i])
    /\ inv[i].fetched.status \notin {"ok", "none"}
    /\ inv[i].fetched.sharoushi \notin {"ok", "none"}
    /\ inv[i].raisedAt = "updateCurrentState"
    /\ inv[i].logSheet /\ inv[i].loggerFallback
    /\ inv[i].httpCalls = [status |-> 1, sharoushi |-> 1]
    /\ inv[i].stateReads = 1 /\ inv[i].stateWrites = 1 /\ inv[i].auditAppends = 1

\* a field of the properties map is present in the page data
HasProperty(d, f) == d.properties.kind = "object" /\ Truthy(d.properties[f])
\* each field of the record is the field of the page data if present, null
\* or the placeholder if absent
EachFieldExtracted(d, r) ==
  /\ ~r.isNull
  /\ r.kigyoMei = IF HasProperty(d, "kigyoMei")
                    THEN d.properties.kigyoMei ELSE KIGYOMEI_UNKNOWN
  /\ r.status = IF HasProperty(d, "status") THEN d.properties.status ELSE Null
  /\ r.tanto = IF HasProperty(d, "tanto") THEN d.properties.tanto ELSE Null
  /\ r.sharoushi = IF HasProperty(d, "sharoushi") THEN d.properties.sharoushi ELSE Null
  /\ r.pageUrl = IF Truthy(d.url) THEN d.url ELSE URL_UNKNOWN
  /\ r.lastEditedTime = IF Truthy(d.last_edited_time)
                          THEN formatDate(d.last_edited_time) ELSE TIME_UNKNOWN

\* C20 as stated: each of company name, status, assignee, liaison status, url
\* and last-edited time that is present in the page data appears in the
\* record extractNotionInfo returns, whichever other fields (or the
\* properties map itself) are absent; absent fields become null or the
\* placeholder.
C20_Original ==
  \A i \in Procs :
    ~inv[i].notionInfo.isNull
      => EachFieldExtracted(inv[i].currentPageData, inv[i].notionInfo)

(***************************************************************************)
(* C20.  extractNotionInfo extracts each field independently as long as    *)
(* the properties map is there: each of company name, status, assignee,    *)
(* liaison status, url and last-edited time that is present in the page    *)
(* data appears in the returned record whichever other fields are absent,  *)
(* and absent fields become null or the placeholder.  Without a properties *)
(* map the record holds "企業名不明", null, null, null, "URL不明" and        *)
(* "日時不明", whatever the url and the last-edited time of the page data.  *)
(***************************************************************************)
C20_FieldsExtractedIndependently ==
  \A i \in Procs :
    LET d == inv[i].currentPageData
        r == inv[i].notionInfo
    IN ~r.isNull =>
         IF d.properties.kind = "object"
           THEN EachFieldExtracted(d, r)
           ELSE r = [isNull |-> FALSE, kigyoMei |-> KIGYOMEI_UNKNOWN, status |-> Null,
                     tanto |-> Null, sharoushi |-> Null, pageUrl |-> URL_UNKNOWN,
                     lastEditedTime |-> TIME_UNKNOWN]

\* a record was extracted from page data that has the assignee, the url and
\* the last-edited time, and neither company name nor status nor liaison status
C20_Witness ==
  \E i \in Procs :
    /\ inv[i].pc = "extracted"
    /\ inv[i].currentPageData.properties.kind = "object"
    /\ inv[i].currentPageData.properties.kigyoMei = Undefined
    /\ inv[i].currentPageData.properties.status = Undefined
    /\ inv[i].currentPageData.properties.sharoushi = Undefined
    /\ inv[i].notionInfo.tanto = "Tanaka"
    /\ inv[i].notionInfo.kigyoMei = KIGYOMEI_UNKNOWN
    /\ inv[i].notionInfo.pageUrl = inv[i].currentPageData.url
    /\ inv[i].notionInfo.pageUrl # URL_UNKNOWN
    /\ inv[i].notionInfo.lastEditedTime = "2025/06/01 12:04:05"

\* the invocation has read the state sheet and getPreviousState has returned
HasLookedUp(l) == l.stateReads = 1 /\ l.raisedAt # "getPreviousState"

\* C21 as stated: getPreviousState returns the index and the parsed payload of
\* the bottom-most data row that carries the page id, never the header row,
\* and null when no data row carries the id.
C21_Original ==
  \A i \in Procs :
    LET l == inv[i]
        hit == RowsFor(l.data, l.pageId)
    IN HasLookedUp(l) =>
         IF hit = {}
           THEN ~l.previousState.found
           ELSE /\ l.previousState.found
                /\ l.previousState.rowIndex = BottomRow(l.data, l.pageId)
                /\ JSONparse(l.data[l.previousState.rowIndex].json) =
                     [ok |-> TRUE, value |-> l.previousState.properties]

(***************************************************************************)
(* C21.  getPreviousState is last-match-wins: when several data rows carry *)
(* the page id it looks at the bottom-most of them only, and returns its   *)
(* index and its parsed payload if the payload parses, null if it does not *)
(* (the rows above are not tried); it never matches the header row, and it *)
(* returns null when no data row carries the id.                           *)
(***************************************************************************)
C21_LastMatchWins ==
  \A i \in Procs :
    LET l == inv[i]
        hit == RowsFor(l.data, l.pageId)
    IN HasLookedUp(l) =>
         /\ l.previousState.found => l.previousState.rowIndex >= 2
         /\ IF hit = {} \/ ~JSONparse(l.data[BottomRow(l.data, l.pageId)].json).ok
              THEN l.previousState = NoPreviousState
              ELSE /\ l.previousState.found
                   /\ l.previousState.rowIndex = BottomRow(l.data, l.pageId)
                   /\ JSONparse(l.data[l.previousState.rowIndex].json) =
                        [ok |-> TRUE, value |-> l.previousState.properties]

\* three rows carried the page id with three different payload cells, and
\* the lookup returned the third
C21_Witness ==
  \E i \in Procs :
    /\ HasLookedUp(inv[i])
    /\ RowsFor(inv[i].data, inv[i].pageId) = {2, 3, 4}
    /\ inv[i].data[2].json # inv[i].data[4].json
    /\ inv[i].data[3].json # inv[i].data[4].json
    /\ inv[i].data[2].json # inv[i].data[3].json
    /\ inv[i].previousState.found
    /\ inv[i].previousState.rowIndex = 4

\* what invocation i does in this step
ReadsState(i) == inv'[i].stateReads > inv[i].stateReads
Dispatches(i) ==
  \/ Len(inv'[i].notificationResults) > Len(inv[i].notificationResults)
  \/ \E k \in DOMAIN inv[i].httpCalls : inv'[i].httpCalls[k] > inv[i].httpCalls[k]
AttemptsStateWrite(i) == inv'[i].stateWrites > inv[i].stateWrites
AppendsAudit(i) == inv'[i].auditAppends > inv[i].auditAppends
Responds(i) == inv[i].pc = "return" /\ inv'[i].pc = "idle"
\* the invocation has dispatched a notification
HasDispatched(l) ==
  l.notificationResults # <<>> \/ l.httpCalls # [status |-> 0, sharoushi |-> 0]

(***************************************************************************)
(* C22.  Step order within one invocation: the previous state is read      *)
(* before any notification is dispatched, every notification attempt       *)
(* precedes the state write, the state write precedes the audit append and *)
(* the audit append precedes the response; no step of a later stage occurs *)
(* before a step of an earlier stage.                                      *)
(***************************************************************************)
C22_StepOrder ==
  [][\A i \in Procs :
       /\ ReadsState(i) => /\ ~HasDispatched(inv[i])
                           /\ inv[i].stateWrites = 0
                           /\ inv[i].auditAppends = 0
       /\ Dispatches(i) => /\ inv[i].stateReads = 1
                           /\ inv[i].stateWrites = 0
                           /\ inv[i].auditAppends = 0
       /\ AttemptsStateWrite(i) => /\ inv[i].stateReads = 1
                                   /\ inv[i].handled
                                   /\ inv[i].auditAppends = 0
       /\ AppendsAudit(i) => inv'[i].pc = "return"
       /\ inv[i].pc = "return" => (inv'[i] = inv[i] \/ Responds(i))
       /\ Responds(i) => (inv[i].logSheet => inv[i].auditAppends = 1)]_vars

\* an invocation has read the state, dispatched both notifications, written
\* the state and appended its audit row, and is about to respond
C22_Witness ==
  \E i \in Procs :
    /\ Finished(inv[i])
    /\ inv[i].stateReads = 1
    /\ Len(inv[i].notificationResults) = 2
    /\ inv[i].httpCalls = [status |-> 1, sharoushi |-> 1]
    /\ inv[i].stateWritten
    /\ inv[i].auditAppended

\* the state sheet as getOrCreateSheet leaves a sheet it found in state s:
\* untouched when it existed, created with the header row when it did not
Acquired(s) == IF s.exists THEN s ELSE [exists |-> TRUE, rows |-> <<StateHeaderRow>>]

(***************************************************************************)
(* C23, as stated.  An invocation that fails at parsing leaves the state   *)
(* table unchanged and dispatches no notification; its only persistent     *)
(* effect is the audit row: both sheets are as the invocation found them.  *)
(***************************************************************************)
C23_Original ==
  \A i \in Procs :
    (Finished(inv[i]) /\ Rejected(inv[i])) =>
      /\ stateSheet = inv[i].before.state
      /\ logSheet = inv[i].before.log
      /\ ~HasDispatched(inv[i])

(***************************************************************************)
(* C23, amended.  An invocation that fails at parsing adds no row to the   *)
(* state table and overwrites none, and dispatches no notification on      *)
(* either channel; its persistent effects are at most the audit row and    *)
(* the creation, with its header row, of a sheet that did not exist when   *)
(* the invocation began (the sheets are acquired before the parsing).      *)
(***************************************************************************)
C23_ParseFailureFrame ==
  \A i \in Procs :
    (Finished(inv[i]) /\ Rejected(inv[i])) =>
      /\ stateSheet = Acquired(inv[i].before.state)
      /\ logSheet.exists
      /\ inv[i].stateWrites = 0
      /\ ~HasDispatched(inv[i])
      /\ inv[i].auditAppends = 1

\* an invocation that failed at parsing is about to respond, its audit row
\* appended, over a state table that already held a data row
C23_Witness ==
  \E i \in Procs :
    /\ Finished(inv[i])
    /\ Rejected(inv[i])
    /\ inv[i].auditAppended
    /\ inv[i].before.state.exists
    /\ Len(inv[i].before.state.rows) >= 2

\* the invocation could not acquire or create one of the two sheets
AcquisitionFailed(l) == l.raisedAt \in {"getLogSheet", "getStateSheet"}

AuditAppendFails(i) == AppendsAudit(i) /\ ~inv'[i].auditAppended

(***************************************************************************)
(* C25.  A failure of the audit append is swallowed by logToSheet: the     *)
(* invocation goes on to return its response (nothing is re-raised, the    *)
(* catch block is not entered), the overall status it returns is the one   *)
(* it had before the append, and the state sheet and the notifications     *)
(* already performed are left as they were; the trace goes to Logger.      *)
(***************************************************************************)
C25_AuditFailureSwallowed ==
  [][\A i \in Procs :
       AuditAppendFails(i) =>
         /\ inv'[i].pc = "return"
         /\ inv'[i].raisedAt = inv[i].raisedAt
         /\ inv'[i].overallStatus = inv[i].overallStatus
         /\ stateSheet' = stateSheet
         /\ inv'[i].stateWritten = inv[i].stateWritten
         /\ inv'[i].stateWrites = inv[i].stateWrites
         /\ inv'[i].notificationResults = inv[i].notificationResults
         /\ inv'[i].httpCalls = inv[i].httpCalls
         /\ inv'[i].loggerFallback]_vars

\* an invocation that notified both channels and wrote the state is about to
\* return success although its audit append failed
C25_Witness ==
  \E i \in Procs :
    /\ Finished(inv[i])
    /\ inv[i].auditAppends = 1
    /\ ~inv[i].auditAppended
    /\ inv[i].raisedAt = "none"
    /\ inv[i].overallStatus = STATUS_SUCCESS
    /\ inv[i].stateWritten
    /\ inv[i].httpCalls = [status |-> 1, sharoushi |-> 1]

\* the response of the slot's latest invocation is a well-formed one
Responded(l) ==
  /\ l.pc = "idle"
  /\ l.response.status \in {STATUS_SUCCESS, STATUS_PARTIAL, STATUS_FATAL}
  /\ l.response.message = "Webhook processed."

(***************************************************************************)
(* C26.  Every invocation of doPost terminates with a response: provided   *)
(* each external call either returns or raises, an invocation that has     *)
(* begun eventually returns the JSON response carrying a status and the    *)
(* message "Webhook processed.", and no exception escapes on any path:     *)
(* whatever a step raises is caught inside processWebhook.                 *)
(***************************************************************************)
C26_AlwaysResponds ==
  /\ \A i \in Procs : (inv[i].pc = "loadConfig") ~> Responded(inv[i])
  /\ [](\A i \in Procs :
          /\ inv[i].pc \in {"idle", "loadConfig", "getLogSheet", "getStateSheet",
                            "parse", "getPreviousState", "notifyStatus",
                            "notifySharoushi", "updateCurrentState", "finally",
                            "return"}
          /\ inv[i].raisedAt # "none" => inv[i].pc \in {"finally", "return"})

\* the last invocation the bound allows has returned its response, a fatal one
C26_Witness ==
  \E i \in Procs :
    /\ Responded(inv[i])
    /\ inv[i].response.status = STATUS_FATAL
    /\ started = MaxInvocations

(***************************************************************************)
(* C27, as stated.  An invocation that ends with the fatal status has      *)
(* dispatched no notification: on every path to the fatal status, a        *)
(* failure of the state read or of the state write included, no HTTP call  *)
(* to either channel was made in that invocation.                          *)
(***************************************************************************)
C27_Original ==
  \A i \in Procs :
    (Finished(inv[i]) /\ inv[i].overallStatus = STATUS_FATAL) =>
      inv[i].httpCalls = [status |-> 0, sharoushi |-> 0]

(***************************************************************************)
(* C27, amended.  An invocation that ends with the fatal status through a  *)
(* failure of configuration, sheet acquisition, parsing or page id, or of  *)
(* the state read has dispatched no notification and made no HTTP call.    *)
(* The state write comes after handleNotifications: when it is the step    *)
(* that raised, the notifications decided for the payload have already     *)
(* been dispatched, with at most one HTTP call per channel.                *)
(***************************************************************************)
C27_FatalBeforeNotifications ==
  \A i \in Procs :
    (Finished(inv[i]) /\ inv[i].overallStatus = STATUS_FATAL) =>
      /\ inv[i].raisedAt \in {"loadConfig", "getLogSheet", "getStateSheet", "parse",
                              "getPreviousState", "updateCurrentState"}
      /\ inv[i].raisedAt # "updateCurrentState" =>
           /\ inv[i].httpCalls = [status |-> 0, sharoushi |-> 0]
           /\ inv[i].notificationResults = <<>>
           /\ ~inv[i].handled
      /\ inv[i].raisedAt = "updateCurrentState" =>
           /\ inv[i].handled
           /\ inv[i].httpCalls.status <= 1
           /\ inv[i].httpCalls.sharoushi <= 1
           /\ Dispatched(inv[i], TYPE_STATUS) <=>
                needsStatusNotification(inv[i].previousInfo, inv[i].notionInfo)
           /\ Dispatched(inv[i], TYPE_SHAROUSHI) <=>
                needsSharoushiNotification(inv[i].previousInfo, inv[i].notionInfo)

\* the state read of an invocation with both channels configured raised: the
\* invocation ends fatal without a notification
C27_Witness ==
  \E i \in Procs :
    /\ Finished(inv[i])
    /\ inv[i].overallStatus = STATUS_FATAL
    /\ inv[i].raisedAt = "getPreviousState"
    /\ ValidUrl(inv[i].config.discordUrl)
    /\ ValidUrl(inv[i].config.discordUrlSharoushi)
    /\ inv[i].pageId \in PageIds

(***************************************************************************)
(* C28.  The notify-worthiness predicate and the composed message agree:   *)
(* whenever handleNotifications dispatches the status/assignee             *)
(* notification, over field values that include one equal to the           *)
(* placeholder text "（未設定）", the message createStatusChangeMessage     *)
(* built renders at least one of status and assignee with the arrow        *)
(* transition line.                                                        *)
(***************************************************************************)
C28_DispatchedMessageShowsChange ==
  \A i \in Procs :
    Dispatched(inv[i], TYPE_STATUS) =>
      /\ inv[i].statusMessage.kind = "status"
      /\ inv[i].statusMessage.statusLine.arrow \/ inv[i].statusMessage.tantoLine.arrow

\* two invocations in flight together that carry the identical payload for
\* the same page id and have both gone through handleNotifications
OverlapSamePayload(i, j) ==
  /\ i # j
  /\ inv[i].pageId \in PageIds
  /\ inv[i].currentPageData = inv[j].currentPageData
  /\ inv[i].handled /\ inv[j].handled
\* the read of the invocation found its own payload stored for its page id
FoundOwnPayload(l) ==
  /\ l.previousState.found
  /\ l.previousState.properties = l.currentPageData.properties

(***************************************************************************)
(* C29, as stated.  Under every interleaving of two overlapping            *)
(* invocations that carry the identical payload for the same page id, the  *)
(* notification for that payload is dispatched by at most one of the two   *)
(* on each channel.                                                        *)
(***************************************************************************)
C29_Original ==
  \A i, j \in Procs :
    OverlapSamePayload(i, j) =>
      \A type \in {TYPE_STATUS, TYPE_SHAROUSHI} :
        ~(Dispatched(inv[i], type) /\ Dispatched(inv[j], type))

(***************************************************************************)
(* C29, amended.  Nothing serializes two overlapping invocations that      *)
(* carry the identical payload for the same page id.  When both read the   *)
(* same rows of the state table (neither has written yet) they decide      *)
(* alike, so a notification due on a channel is dispatched by both.  An    *)
(* invocation dispatches nothing when its read finds the payload already   *)
(* stored, as it does when the other invocation wrote it before the read;  *)
(* only then is the notification dispatched by at most one of the two.     *)
(***************************************************************************)
C29_DuplicateNotification ==
  \A i, j \in Procs :
    OverlapSamePayload(i, j) =>
      /\ inv[i].data = inv[j].data =>
           \A type \in {TYPE_STATUS, TYPE_SHAROUSHI} :
             Dispatched(inv[i], type) <=> Dispatched(inv[j], type)
      /\ FoundOwnPayload(inv[j]) =>
           /\ inv[j].notificationResults = <<>>
           /\ inv[j].httpCalls = [status |-> 0, sharoushi |-> 0]
      /\ \A type \in {TYPE_STATUS, TYPE_SHAROUSHI} :
           (Dispatched(inv[i], type) /\ Dispatched(inv[j], type)) =>
             /\ ~FoundOwnPayload(inv[i])
             /\ ~FoundOwnPayload(inv[j])

\* one invocation dispatched on both channels and wrote the state; the other,
\* with the identical payload, read after that write and dispatched nothing
C29_Witness ==
  \E i, j \in Procs :
    /\ OverlapSamePayload(i, j)
    /\ Dispatched(inv[i], TYPE_STATUS)
    /\ Dispatched(inv[i], TYPE_SHAROUSHI)
    /\ inv[i].stateWritten
    /\ i \in inv[j].readAfter
    /\ FoundOwnPayload(inv[j])
    /\ inv[j].notificationResults = <<>>

\* invocation i overwrites a payload cell in place in this step
UpdatesInPlace(i) == AttemptsStateWrite(i) /\ inv[i].previousState.found

(***************************************************************************)
(* C30.  Row indices stay valid under interleaving: at the moment          *)
(* updateCurrentState overwrites the payload cell at the row index that    *)
(* getPreviousState returned earlier, the key column of that row still     *)
(* holds the invocation's own page id, whatever other invocations wrote in *)
(* between; the update changes that payload cell only, so it never         *)
(* overwrites the state of a different page.                               *)
(***************************************************************************)
C30_RowIndexStaysValid ==
  [][\A i \in Procs :
       UpdatesInPlace(i) =>
         LET rowIndex == inv[i].previousState.rowIndex
         IN /\ rowIndex \in 2..Len(stateSheet.rows)
            /\ stateSheet.rows[rowIndex].pageId = inv[i].pageId
            /\ Len(stateSheet'.rows) = Len(stateSheet.rows)
            /\ \A r \in 1..Len(stateSheet.rows) :
                 /\ stateSheet'.rows[r].pageId = stateSheet.rows[r].pageId
                 /\ stateSheet.rows[r].pageId # inv[i].pageId
                      => stateSheet'.rows[r] = stateSheet.rows[r]]_vars

\* an invocation has overwritten its row in place after another invocation,
\* for a different page, appended a row between its read and its write
C30_Witness ==
  \E i, j \in Procs :
    /\ i # j
    /\ inv[i].stateWritten
    /\ inv[i].previousState.found
    /\ inv[j].stateWritten
    /\ inv[j].pageId # inv[i].pageId
    /\ j \notin inv[i].readAfter
    /\ j \in inv[i].wroteAfter
    /\ Len(stateSheet.rows) > Len(inv[i].data)
    /\ stateSheet.rows[inv[i].previousState.rowIndex] =
         [pageId |-> inv[i].pageId, json |-> CellWritten(inv[i])]

\* the latest completed invocation for the page id found the stored payload
\* undeserializable, carried a properties object and wrote the state
AfterCorruptEntry(pageId) ==
  /\ lastFor[pageId].updated
  /\ lastFor[pageId].corrupt
  /\ lastFor[pageId].data.properties.kind = "object"

STATUS_NO_DATA == "notion-data-nashi"
\* "未処理"
SEND_UNPROCESSED == "mishori"
\* "スキップ（Notionデータなし）"
SEND_SKIPPED_NO_DATA == "skip (notion-data-nashi)"
\* "取得失敗"
EXTRACT_FAILED == "shutoku-shippai"

\* lines 25-30: the script properties, read when the script is loaded
Globals_part000 == [SPREADSHEET_ID : {Null, "sheet-id"}, DISCORD_WEBHOOK_URL : WebhookUrls]

\* the page data of the events of this handler, which never reads the page id
PageData_part000 == {d \in PageData : d.id = "P1"}
Events_part000 ==
  [kind : {"noEvent", "noPostData", "notJson", "noData"}, data : {NoPageData}]
    \cup [kind : {"page"}, data : PageData_part000]

\* lines 188-234: notionPageData stays null unless the body parses and has "data"
parseWebhookEvent_part000(e) ==
  [rawContents |-> CASE e.kind = "noEvent" -> "N/A"
                     [] e.kind = "noPostData" -> "e.postData or e.postData.contents is missing"
                     [] OTHER -> "contents",
   isNull |-> e.kind # "page",
   notionPageData |-> IF e.kind = "page" THEN e.data ELSE NoPageData]

\* new Date(t).toLocaleString("ja-JP")
toLocaleString_jaJP(t) ==
  CASE t = "2025-06-01T03:04:05.000Z" -> "2025/6/1 12:04:05"
    [] OTHER -> "Invalid Date"

\* lines 242-272
extractNotionInfo_part000(notionPageData) ==
  LET properties == notionPageData.properties
      reach(v) == IF properties.kind = "object" /\ Truthy(v) THEN v ELSE EXTRACT_FAILED
  IN [isNull |-> FALSE,
      kigyoMei |-> reach(properties.kigyoMei),
      status |-> reach(properties.status),
      tanto |-> reach(properties.tanto),
      pageUrl |-> OrElse(notionPageData.url, URL_UNKNOWN),
      lastEditedTime |->
        IF Truthy(notionPageData.last_edited_time)
          THEN toLocaleString_jaJP(notionPageData.last_edited_time)
          ELSE TIME_UNKNOWN]
NoInfo_part000 ==
  [isNull |-> TRUE, kigyoMei |-> Null, status |-> Null, tanto |-> Null,
   pageUrl |-> Null, lastEditedTime |-> Null]

\* lines 281-335, called with a non-null notionInfo
sendDiscordNotificationAndGetStatus_part000(notionInfo, discordWebhookUrl, fetchResult) ==
  IF notionInfo.isNull
    THEN [status |-> "skip (notion-jouhou-nashi)", error |-> Null, calls |-> 0]
  ELSE IF ~discordWebhookUrl.isNull /\ startsWithDiscordPrefix(discordWebhookUrl)
    THEN IF fetchResult = "ok"
           THEN [status |-> SEND_OK, error |-> Null, calls |-> 1]
           ELSE [status |-> SEND_ERROR, error |-> fetchResult, calls |-> 1]
    ELSE [status |-> SEND_SKIPPED, error |-> Null, calls |-> 0]

\* lines 348-383: the row logToSheet appends (the columns the claims read)
logToSheet_part000(notionInfo, overallStatus, discordSendStatus) ==
  [kigyoMei |-> IF notionInfo.isNull THEN "N/A" ELSE notionInfo.kigyoMei,
   status |-> IF notionInfo.isNull THEN "N/A" ELSE notionInfo.status,
   tanto |-> IF notionInfo.isNull THEN "N/A" ELSE notionInfo.tanto,
   overallStatus |-> overallStatus,
   discordSendStatus |-> discordSendStatus]

\* lines 54-68: the locals of doPost, the calls of appendRow it made (appended:
\* those that returned) and of UrlFetchApp.fetch, and the response it returns
Locals_part000 ==
  [pc |-> "idle",
   sheet |-> FALSE,
   isNull |-> TRUE,
   notionPageData |-> NoPageData,
   extractedNotionInfo |-> NoInfo_part000,
   overallStatus |-> STATUS_SUCCESS,
   discordSendStatus |-> SEND_UNPROCESSED,
   errorForSheet |-> "",
   raised |-> FALSE,
   returned |-> FALSE,
   appendCalls |-> 0,
   appended |-> <<>>,
   httpCalls |-> 0,
   response |-> NoResponse]

WebhookIdle ==
  /\ stateSheet = [exists |-> FALSE, rows |-> <<>>]
  /\ logSheet = [exists |-> FALSE]
  /\ inv = [i \in Procs |-> InitLocals]
  /\ started = 0
  /\ lastFor = [id \in PageIds |-> NoLast]

Init_part000 ==
  /\ WebhookIdle
  /\ \E g \in Globals_part000 :
       part000 = [deployed |-> TRUE, globals |-> g, sheetExists |-> FALSE,
                  started |-> 0, run |-> Locals_part000]
  /\ part001 = NotDeployed
  /\ tool = NotDeployed

\* lines 116-121: the catch block
catch_part000(l, error) ==
  [l EXCEPT !.overallStatus = STATUS_FATAL, !.raised = TRUE,
            !.errorForSheet = error, !.pc = "finally"]

Begin_part000 ==
  /\ part000.run.pc = "idle"
  /\ part000.started < MaxInvocations
  /\ part000' = [part000 EXCEPT !.started = @ + 1,
                                !.run = [Locals_part000 EXCEPT !.pc = "getSheet"]]
  /\ UNCHANGED <<webhook, part001, tool>>

\* lines 71-76
GetSheet_part000 ==
  /\ part000.run.pc = "getSheet"
  /\ IF ~Truthy(part000.globals.SPREADSHEET_ID)
       THEN part000' = [part000 EXCEPT !.run = catch_part000(@, "not set")]
       ELSE \E ok \in BOOLEAN :
              part000' =
                IF ok
                  THEN [part000 EXCEPT !.sheetExists = TRUE, !.run.sheet = TRUE,
                                       !.run.pc = "parse"]
                  ELSE [part000 EXCEPT !.run = catch_part000(@, "no access")]
  /\ UNCHANGED <<webhook, part001, tool>>

\* lines 77-99: without page data the row is logged here and doPost returns from
\* inside the try, which still runs the finally block
Parse_part000 ==
  /\ part000.run.pc = "parse"
  /\ \E e \in Events_part000, ok \in BOOLEAN :
       LET webhookData == parseWebhookEvent_part000(e)
           row == logToSheet_part000(NoInfo_part000, STATUS_NO_DATA,
                                     SEND_SKIPPED_NO_DATA)
       IN part000' = [part000 EXCEPT !.run =
            IF webhookData.isNull
              THEN [@ EXCEPT !.overallStatus = STATUS_NO_DATA,
                             !.discordSendStatus = SEND_SKIPPED_NO_DATA,
                             !.appendCalls = @ + 1,
                             !.appended = IF ok THEN Append(@, row) ELSE @,
                             !.returned = TRUE,
                             !.response = [status |-> "error",
                                           message |-> "Notion page data not found."],
                             !.pc = "finally"]
              ELSE [@ EXCEPT !.isNull = FALSE,
                             !.notionPageData = webhookData.notionPageData,
                             !.pc = "notify"]]
  /\ UNCHANGED <<webhook, part001, tool>>

\* lines 101-115
Notify_part000 ==
  /\ part000.run.pc = "notify"
  /\ \E fetchResult \in FetchResults :
       LET extractedNotionInfo == extractNotionInfo_part000(part000.run.notionPageData)
           discordResult == sendDiscordNotificationAndGetStatus_part000(
                              extractedNotionInfo,
                              part000.globals.DISCORD_WEBHOOK_URL, fetchResult)
       IN part000' = [part000 EXCEPT !.run =
            [@ EXCEPT !.extractedNotionInfo = extractedNotionInfo,
                      !.discordSendStatus = discordResult.status,
                      !.httpCalls = @ + discordResult.calls,
                      !.errorForSheet = IF Truthy(discordResult.error)
                                          THEN discordResult.error ELSE @,
                      !.overallStatus = IF Truthy(discordResult.error)
                                          THEN STATUS_PARTIAL ELSE @,
                      !.pc = "finally"]]
  /\ UNCHANGED <<webhook, part001, tool>>

\* lines 122-139: logToSheet when the sheet was acquired, its failure swallowed
Finally_part000 ==
  /\ part000.run.pc = "finally"
  /\ IF part000.run.sheet
       THEN \E ok \in BOOLEAN :
              LET row == logToSheet_part000(part000.run.extractedNotionInfo,
                                            part000.run.overallStatus,
                                            part000.run.discordSendStatus)
              IN part000' = [part000 EXCEPT
                   !.run.appendCalls = @ + 1,
                   !.run.appended = IF ok THEN Append(@, row) ELSE @,
                   !.run.pc = "return"]
       ELSE part000' = [part000 EXCEPT !.run.pc = "return"]
  /\ UNCHANGED <<webhook, part001, tool>>

\* lines 141-149, or the return of line 93 completing after the finally block
Return_part000 ==
  /\ part000.run.pc = "return"
  /\ part000' = [part000 EXCEPT !.run =
       [Locals_part000 EXCEPT !.response =
          IF part000.run.returned THEN part000.run.response
          ELSE [status |-> part000.run.overallStatus,
                message |-> OrElse(part000.run.errorForSheet, "Webhook processed.")]]]
  /\ UNCHANGED <<webhook, part001, tool>>

Next_part000 ==
  \/ Begin_part000
  \/ GetSheet_part000
  \/ Parse_part000
  \/ Notify_part000
  \/ Finally_part000
  \/ Return_part000

Spec_part000 == Init_part000 /\ [][Next_part000]_vars

(***************************************************************************)
(* C32.  In the earlier single-channel handler every invocation that       *)
(* acquires the log sheet appends exactly one audit row, an invocation     *)
(* whose body yields no Notion page data included: its logToSheet is       *)
(* called once.  (An appendRow that fails is not counted against the       *)
(* handler: the statement is about the invocations all of whose appends    *)
(* returned.)                                                              *)
(***************************************************************************)
C32_OneAuditRow_part000 ==
  (/\ part000.run.pc = "return"
   /\ part000.run.sheet
   /\ Len(part000.run.appended) = part000.run.appendCalls)
    => Len(part000.run.appended) = 1

(***************************************************************************)
(* The earlier two-channel handler: doPost of src/unnamed/part_001.  It    *)
(* keeps the last properties of every page in a state sheet and notifies   *)
(* the status channel and the liaison channel.                             *)
(***************************************************************************)
\* "（不明）"
PREV_UNKNOWN == "(fumei)"
\* "カラムなし"
NO_COLUMN == "column-nashi"
\* "（ステータス未設定）"
STATUS_NOT_SET == "(status-misettei)"

\* lines 18-27: the script properties, read when the script is loaded
Globals_part001 ==
  [SPREADSHEET_ID : {Null, "sheet-id"},
   DISCORD_WEBHOOK_URL : WebhookUrls,
   DISCORD_WEBHOOK_URL_SHAROUSHI : WebhookUrls]

\* the properties of the events of this handler: two assignees, so that the
\* assignee of a stored page can change
TantoRaw_part001 == {Undefined, "Tanaka", "Sato"}
\* the liaison property: absent, present without a status, or with a status name
NoStatus == "property without status"
SharoushiRaw_part001 == SharoushiRaw \cup {NoStatus}
Properties_part001 ==
  {UndefinedProperties, NullProperties}
    \cup [kind : {"object"}, kigyoMei : {"A-sha"}, status : {Undefined, "shoudanchuu"},
          tanto : TantoRaw_part001, sharoushi : SharoushiRaw_part001]
PageData_part001 ==
  [id : {"P1", Undefined}, properties : Properties_part001,
   url : {"https://www.notion.so/p"}, last_edited_time : {"2025-06-01T03:04:05.000Z"}]
Events_part001 ==
  [kind : {"noEvent", "noPostData", "notJson", "noData"}, data : {NoPageData}]
    \cup [kind : {"page"}, data : PageData_part001]

\* lines 383-428
extractNotionInfo_part001(notionPageData) ==
  LET properties == notionPageData.properties
      pageUrl == OrElse(notionPageData.url, URL_UNKNOWN)
      lastEditedTime == IF Truthy(notionPageData.last_edited_time)
                          THEN toLocaleString_jaJP(notionPageData.last_edited_time)
                          ELSE TIME_UNKNOWN
  IN IF properties.kind # "object"
       THEN [isNull |-> FALSE, kigyoMei |-> EXTRACT_FAILED, status |-> EXTRACT_FAILED,
             tanto |-> EXTRACT_FAILED, sharoushi |-> Null, pageUrl |-> pageUrl,
             lastEditedTime |-> lastEditedTime]
       ELSE [isNull |-> FALSE,
             kigyoMei |-> OrElse(properties.kigyoMei, EXTRACT_FAILED),
             status |-> OrElse(properties.status, EXTRACT_FAILED),
             tanto |-> OrElse(properties.tanto, EXTRACT_FAILED),
             sharoushi |-> CASE properties.sharoushi = Undefined -> NO_COLUMN
                             [] properties.sharoushi = NoStatus -> STATUS_NOT_SET
                             [] OTHER -> properties.sharoushi,
             pageUrl |-> pageUrl,
             lastEditedTime |-> lastEditedTime]
NoInfo_part001 ==
  [isNull |-> TRUE, kigyoMei |-> Null, status |-> Null, tanto |-> Null,
   sharoushi |-> Null, pageUrl |-> Null, lastEditedTime |-> Null]

\* lines 89-91: extractNotionInfo({properties: previousProperties}) or null
previousNotionInfo_part001(previousState) ==
  IF previousState.found /\ previousState.properties.kind = "object"
    THEN extractNotionInfo_part001(
           [id |-> Undefined, properties |-> previousState.properties,
            url |-> Undefined, last_edited_time |-> Undefined])
    ELSE NoInfo_part001

\* lines 96-99: the condition of the status/assignee notification
statusChanged_part001(previousNotionInfo, extractedNotionInfo) ==
  previousNotionInfo.isNull \/ previousNotionInfo.status # extractedNotionInfo.status

\* lines 111-114: the condition of the liaison notification
sharoushiChanged_part001(previousNotionInfo, extractedNotionInfo) ==
  previousNotionInfo.isNull \/ previousNotionInfo.sharoushi # extractedNotionInfo.sharoushi

\* lines 246-274: the message body of sendStateChangeDiscordNotification
stateChangeMessage_part001(previousInfo, currentInfo) ==
  IF ~previousInfo.isNull
    THEN LET prevStatus == OrElse(previousInfo.status, PREV_UNKNOWN)
             prevTanto == OrElse(previousInfo.tanto, PREV_UNKNOWN)
         IN [kind |-> "status", kigyoMei |-> currentInfo.kigyoMei,
             statusLine |-> IF currentInfo.status # prevStatus
                              THEN ArrowLine(prevStatus, currentInfo.status)
                              ELSE PlainLine(currentInfo.status),
             tantoLine |-> IF currentInfo.tanto # prevTanto
                             THEN ArrowLine(prevTanto, currentInfo.tanto)
                             ELSE PlainLine(currentInfo.tanto),
             lastEditedTime |-> currentInfo.lastEditedTime,
             pageUrl |-> currentInfo.pageUrl]
    ELSE [kind |-> "status", kigyoMei |-> currentInfo.kigyoMei,
          statusLine |-> PlainLine(currentInfo.status),
          tantoLine |-> PlainLine(currentInfo.tanto),
          lastEditedTime |-> currentInfo.lastEditedTime,
          pageUrl |-> currentInfo.pageUrl]

\* lines 283-309 and 472-501: the URL test and the fetch of both senders
send_part001(discordWebhookUrl, fetchResult) ==
  IF ~discordWebhookUrl.isNull /\ startsWithDiscordPrefix(discordWebhookUrl)
    THEN IF fetchResult = "ok"
           THEN [status |-> SEND_OK, error |-> Null, calls |-> 1]
           ELSE [status |-> SEND_ERROR, error |-> fetchResult, calls |-> 1]
    ELSE [status |-> SEND_SKIPPED, error |-> Null, calls |-> 0]

\* lines 49-56: the locals of doPost, the notifications whose sender it called
\* (sent) and the calls of UrlFetchApp.fetch it made
Locals_part001 ==
  [pc |-> "idle",
   logSheet |-> FALSE,
   notionPageData |-> NoPageData,
   previousState |-> NoPreviousState,
   previousNotionInfo |-> NoInfo_part001,
   extractedNotionInfo |-> NoInfo_part001,
   overallStatus |-> STATUS_SUCCESS,
   discordSendStatus |-> <<>>,
   sent |-> <<>>,
   httpCalls |-> 0,
   logged |-> FALSE]

Init_part001 ==
  /\ WebhookIdle
  /\ part000 = NotDeployed
  /\ \E g \in Globals_part001 :
       part001 = [deployed |-> TRUE, globals |-> g, rows |-> <<>>,
                  started |-> 0, run |-> Locals_part001]
  /\ tool = NotDeployed

\* lines 134-136: the catch block
catch_part001(l) == [l EXCEPT !.overallStatus = STATUS_FATAL, !.pc = "finally"]

Begin_part001 ==
  /\ part001.run.pc = "idle"
  /\ part001.started < MaxInvocations
  /\ part001' = [part001 EXCEPT !.started = @ + 1,
                                !.run = [Locals_part001 EXCEPT !.pc = "getSheets"]]
  /\ UNCHANGED <<webhook, part000, tool>>

\* lines 59-70: both sheets, the state sheet created with its header row
GetSheets_part001 ==
  /\ part001.run.pc = "getSheets"
  /\ IF ~Truthy(part001.globals.SPREADSHEET_ID)
       THEN part001' = [part001 EXCEPT !.run = catch_part001(@)]
       ELSE \E logOk \in BOOLEAN, stateOk \in BOOLEAN :
              part001' =
                IF ~logOk THEN [part001 EXCEPT !.run = catch_part001(@)]
                ELSE IF ~stateOk
                  THEN [part001 EXCEPT !.run = catch_part001([@ EXCEPT !.logSheet = TRUE])]
                ELSE [part001 EXCEPT
                        !.rows = IF @ = <<>> THEN <<StateHeaderRow>> ELSE @,
                        !.run.logSheet = TRUE,
                        !.run.pc = "parse"]
  /\ UNCHANGED <<webhook, part000, tool>>

\* lines 72-91: the page data, the previous state and both records
Parse_part001 ==
  /\ part001.run.pc = "parse"
  /\ \E e \in Events_part001 :
       IF e.kind # "page" \/ ~Truthy(e.data.id)
         THEN part001' = [part001 EXCEPT !.run = catch_part001(@)]
         ELSE LET previousState == getPreviousState(part001.rows, e.data.id)
              IN part001' = [part001 EXCEPT !.run =
                   [@ EXCEPT !.notionPageData = e.data,
                             !.previousState = previousState,
                             !.extractedNotionInfo = extractNotionInfo_part001(e.data),
                             !.previousNotionInfo =
                               previousNotionInfo_part001(previousState),
                             !.pc = "notifyStatus"]]
  /\ UNCHANGED <<webhook, part000, tool>>

\* lines 94-108
NotifyStatus_part001 ==
  /\ part001.run.pc = "notifyStatus"
  /\ \E fetchResult \in FetchResults :
       LET l == part001.run
           result == send_part001(part001.globals.DISCORD_WEBHOOK_URL, fetchResult)
       IN part001' = [part001 EXCEPT !.run =
            IF statusChanged_part001(l.previousNotionInfo, l.extractedNotionInfo)
              THEN [@ EXCEPT
                      !.sent = Append(@, stateChangeMessage_part001(
                                 l.previousNotionInfo, l.extractedNotionInfo)),
                      !.discordSendStatus = Append(@, <<"status", result.status>>),
                      !.httpCalls = @ + result.calls,
                      !.overallStatus = IF Truthy(result.error) THEN STATUS_PARTIAL ELSE @,
                      !.pc = "notifySharoushi"]
              ELSE [@ EXCEPT !.pc = "notifySharoushi"]]
  /\ UNCHANGED <<webhook, part000, tool>>

\* lines 110-123
NotifySharoushi_part001 ==
  /\ part001.run.pc = "notifySharoushi"
  /\ \E fetchResult \in FetchResults :
       LET l == part001.run
           result == send_part001(part001.globals.DISCORD_WEBHOOK_URL_SHAROUSHI,
                                  fetchResult)
       IN part001' = [part001 EXCEPT !.run =
            IF sharoushiChanged_part001(l.previousNotionInfo, l.extractedNotionInfo)
              THEN [@ EXCEPT
                      !.sent = Append(@, [NoMessage EXCEPT
                                 !.kind = "sharoushi",
                                 !.kigyoMei = l.extractedNotionInfo.kigyoMei]),
                      !.discordSendStatus = Append(@, <<"sharoushi", result.status>>),
                      !.httpCalls = @ + result.calls,
                      !.overallStatus = IF Truthy(result.error) THEN STATUS_PARTIAL ELSE @,
                      !.pc = "updateState"]
              ELSE [@ EXCEPT !.pc = "updateState"]]
  /\ UNCHANGED <<webhook, part000, tool>>

\* lines 125-133: the write is not guarded, its failure reaches the catch block
UpdateState_part001 ==
  /\ part001.run.pc = "updateState"
  /\ \E ok \in BOOLEAN :
       LET l == part001.run
       IN part001' =
            IF ok
              THEN [part001 EXCEPT
                      !.rows = updateCurrentState(@, l.notionPageData.id,
                                 l.notionPageData.properties, l.previousState.rowIndex),
                      !.run.pc = "finally"]
              ELSE [part001 EXCEPT !.run = catch_part001(@)]
  /\ UNCHANGED <<webhook, part000, tool>>

\* lines 137-154
Finally_part001 ==
  /\ part001.run.pc = "finally"
  /\ part001' = [part001 EXCEPT !.run.logged = part001.run.logSheet,
                                !.run.pc = "return"]
  /\ UNCHANGED <<webhook, part000, tool>>

\* lines 156-161
Return_part001 ==
  /\ part001.run.pc = "return"
  /\ part001' = [part001 EXCEPT !.run = Locals_part001]
  /\ UNCHANGED <<webhook, part000, tool>>

Next_part001 ==
  \/ Begin_part001
  \/ GetSheets_part001
  \/ Parse_part001
  \/ NotifyStatus_part001
  \/ NotifySharoushi_part001
  \/ UpdateState_part001
  \/ Finally_part001
  \/ Return_part001

Spec_part001 == Init_part001 /\ [][Next_part001]_vars

\* the invocation has passed both notification steps for a page with a stored
\* state whose assignee alone differs from the one of the event
AssigneeOnlyChange_part001 ==
  LET l == part001.run
  IN /\ l.pc = "updateState"
     /\ ~l.previousNotionInfo.isNull
     /\ l.previousNotionInfo.status = l.extractedNotionInfo.status
     /\ l.previousNotionInfo.sharoushi = l.extractedNotionInfo.sharoushi
     /\ l.previousNotionInfo.tanto # l.extractedNotionInfo.tanto

(***************************************************************************)
(* C33.  In the earlier two-channel handler, for a page with a stored      *)
(* previous state, a change of the assignee alone (status and liaison      *)
(* status unchanged) dispatches the status/assignee notification: after    *)
(* the notification steps of such an invocation the sender of the status   *)
(* notification has been called.                                           *)
(***************************************************************************)
C33_AssigneeChangeNotified_part001 ==
  AssigneeOnlyChange_part001
    => \E k \in DOMAIN part001.run.sent : part001.run.sent[k].kind = "status"

(***************************************************************************)
(* The batch draft tool: createDraftsForSelectedRows (main.js, lines       *)
(* 605-809).  The user selects ranges of a sheet and starts the tool from  *)
(* the menu; for every selected row it creates a Gmail draft with the PDF  *)
(* of the row attached and records the outcome in the status column.       *)
(***************************************************************************)
\* the number of rows of the sheet, the header row included
MaxSheetRows == 3
\* the number of ranges of one selection
MaxRanges == 2
\* the number of times a setValue of the tool throws
MaxWriteFailures == 1

SheetRows == 1..MaxSheetRows

\* the header of the status column, "処理ステータス"
STATUS_HEADER == "shori-status"
\* "作成済み"
CREATED == "sakuseizumi"
\* "エラー: 必須情報（アドレス, ファイル名, 対象月）が不足しています。"
ERR_MISSING == "error: hissu-jouhou ga fusoku"

\* the month folder the rows name
MonthFolders == {"2025-06"}

\* the cells of a row the tool reads (line 713): complete, without an address,
\* without a file name, without a month
RowValues ==
  [email : {"a@example.com"}, pdfFileName : {"receipt.pdf"}, targetMonthFolder : MonthFolders]
    \cup {[email |-> "", pdfFileName |-> "receipt.pdf", targetMonthFolder |-> "2025-06"],
          [email |-> "a@example.com", pdfFileName |-> "", targetMonthFolder |-> "2025-06"],
          [email |-> "a@example.com", pdfFileName |-> "receipt.pdf", targetMonthFolder |-> ""]}

\* e.message of the errors a row can raise: the month folder is not found (line
\* 742), the PDF is not found (line 750), GmailApp.createDraft throws, setValue
\* throws
FolderNotFound(targetMonthFolder) ==
  CASE targetMonthFolder = "2025-06" -> "tsuki-folder 2025-06 ga mitsukarimasen"
    [] OTHER -> "tsuki-folder ga mitsukarimasen"
PdfNotFound == "PDF-file receipt.pdf ga mitsukarimasen"
DraftFailed == "Service invoked too many times for one day: email"
WriteFailed == "Service Spreadsheets failed"

\* `エラー: ${e.message}` (line 768)
ErrorStatus(message) ==
  CASE message = FolderNotFound("2025-06") -> "error: tsuki-folder 2025-06 ga mitsukarimasen"
    [] message = PdfNotFound -> "error: PDF-file receipt.pdf ga mitsukarimasen"
    [] message = DraftFailed -> "error: Service invoked too many times for one day: email"
    [] OTHER -> "error: Service Spreadsheets failed"

\* what Drive, Gmail and the sheet do during one row: whether the month folder
\* and the PDF are found, whether createDraft returns, and whether the first
\* and the second setValue of the row return
RowEnv ==
  [folderFound : BOOLEAN, pdfFound : BOOLEAN, draftOk : BOOLEAN,
   writeOk : BOOLEAN, catchWriteOk : BOOLEAN]

\* the outcome of a row: the value of its status cell afterwards, the drafts it
\* created, whether an error left the row loop, the folder cache afterwards,
\* what happened (kind), the setValue calls that threw, and the increment of
\* successCount
Outcome(statusValue, draft, aborted, cache, kind, writeFailures, success) ==
  [status |-> statusValue, draft |-> draft, aborted |-> aborted, cache |-> cache,
   kind |-> kind, writeFailures |-> writeFailures, success |-> success]

\* lines 766-769: the catch block of a row, entered after failed setValue calls
\* had thrown; a setValue that throws here leaves the loop for the catch block
\* of the run (line 778)
catchRow(statusValue, message, draft, cache, kind, writeOk, failed) ==
  IF writeOk
    THEN Outcome(ErrorStatus(message), draft, FALSE, cache, kind, failed, 0)
    ELSE Outcome(statusValue, draft, TRUE, cache, kind, failed + 1, 0)

\* lines 726-734: a required cell is missing; the setValue is outside the try
missingRequired(statusValue, cache, writeOk) ==
  IF writeOk
    THEN Outcome(ERR_MISSING, 0, FALSE, cache, "missing", 0, 0)
    ELSE Outcome(statusValue, 0, TRUE, cache, "missing", 1, 0)

\* as visit, creating the draft of a row whatever its status is
visit_noSkip(currentRow, statusValue, rowValues, cache, env) ==
  IF currentRow = 1 THEN Outcome(statusValue, 0, FALSE, cache, "header", 0, 0)
  ELSE IF ~env.draftOk
    THEN catchRow(statusValue, DraftFailed, 0, cache, "draft", env.writeOk, 0)
  ELSE IF env.writeOk
    THEN Outcome(CREATED, 1, FALSE, cache, "created", 0, 1)
    ELSE catchRow(statusValue, WriteFailed, 1, cache, "created", env.catchWriteOk, 1)

\* as visit, with a catch block that passes the error of the row on to the run
visit_rethrows(currentRow, statusValue, rowValues, cache, env) ==
  IF currentRow = 1 THEN Outcome(statusValue, 0, FALSE, cache, "header", 0, 0)
  ELSE IF statusValue = CREATED
    THEN Outcome(statusValue, 0, FALSE, cache, "skipped", 0, 0)
  ELSE IF ~Truthy(rowValues.email) \/ ~Truthy(rowValues.pdfFileName)
            \/ ~Truthy(rowValues.targetMonthFolder)
    THEN missingRequired(statusValue, cache, env.writeOk)
  ELSE IF env.folderFound /\ env.pdfFound /\ env.draftOk /\ env.writeOk
    THEN Outcome(CREATED, 1, FALSE, cache \cup {rowValues.targetMonthFolder},
                 "created", 0, 1)
    ELSE Outcome(statusValue, 0, TRUE, cache, "pdf", 0, 0)

\* lines 693-771: one pass of the row loop for the row currentRow, whose status
\* cell holds statusValue.  kind names what happened: the header row or a row
\* already done was passed over, a required cell was missing, the month folder,
\* the PDF or the draft failed, or the draft was created
visit(currentRow, statusValue, rowValues, cache, env) ==
  IF currentRow = 1 THEN Outcome(statusValue, 0, FALSE, cache, "header", 0, 0)
  ELSE IF statusValue = CREATED
    THEN Outcome(statusValue, 0, FALSE, cache, "skipped", 0, 0)
  ELSE IF ~Truthy(rowValues.email) \/ ~Truthy(rowValues.pdfFileName)
            \/ ~Truthy(rowValues.targetMonthFolder)
    THEN missingRequired(statusValue, cache, env.writeOk)
  ELSE IF rowValues.targetMonthFolder \notin cache /\ ~env.folderFound
    THEN catchRow(statusValue, FolderNotFound(rowValues.targetMonthFolder), 0, cache,
                  "folder", env.writeOk, 0)
  ELSE LET monthFolderCache == cache \cup {rowValues.targetMonthFolder}
       IN IF ~env.pdfFound
            THEN catchRow(statusValue, PdfNotFound, 0, monthFolderCache, "pdf",
                          env.writeOk, 0)
          ELSE IF ~env.draftOk
            THEN catchRow(statusValue, DraftFailed, 0, monthFolderCache, "draft",
                          env.writeOk, 0)
          ELSE IF env.writeOk
            THEN Outcome(CREATED, 1, FALSE, monthFolderCache, "created", 0, 1)
            ELSE catchRow(statusValue, WriteFailed, 1, monthFolderCache, "created",
                          env.catchWriteOk, 1)

\* lines 679-681: the run in progress; rangesLeft counts the ranges of the
\* selection the loop has not reached, currentRow and rowsLeft are the position
\* in the range it is in, and lastKind what happened to the row before
\* currentRow (after a run that its catch block ended: to the row that ended it)
NoRun ==
  [pc |-> "idle", rangesLeft |-> 0, currentRow |-> 0, rowsLeft |-> 0,
   monthFolderCache |-> {}, successCount |-> 0, lastKind |-> "none"]

\* a sheet with its header row and blank status cells, and no draft in Gmail;
\* writeFailures counts the setValue calls of the tool that threw
Init_tool ==
  /\ WebhookIdle
  /\ part000 = NotDeployed
  /\ part001 = NotDeployed
  /\ \E hasStatusColumn \in BOOLEAN :
       tool = [deployed |-> TRUE,
               hasStatusColumn |-> hasStatusColumn,
               status |-> [r \in SheetRows |-> IF r = 1 THEN STATUS_HEADER ELSE ""],
               drafts |-> [r \in SheetRows |-> 0],
               writeFailures |-> 0,
               run |-> NoRun]

\* lines 640-681: getConfig, the sheet name, the settings sheet and the
\* selection; a run that fails one of them ends before the loop
StartRun ==
  /\ tool.run.pc = "idle"
  /\ \E precondition \in {"ok", "noConfig", "wrongSheet", "noSettings", "noSelection"},
        n \in 1..MaxRanges :
       tool' = IF precondition = "ok"
                 THEN [tool EXCEPT !.run = [NoRun EXCEPT !.pc = "range",
                                                         !.rangesLeft = n]]
                 ELSE tool
  /\ UNCHANGED <<webhook, part000, part001>>

\* lines 684-691: the next range of the selection.  The selection is read once
\* (line 660) and the loop does not change it, so its ranges are drawn as the
\* loop reaches them
NextRange ==
  /\ tool.run.pc = "range"
  /\ tool.run.rangesLeft > 0
  /\ \E startRow \in SheetRows :
       \E numRows \in 1..(MaxSheetRows - startRow + 1) :
         tool' = [tool EXCEPT !.run.rangesLeft = @ - 1,
                              !.run.currentRow = startRow,
                              !.run.rowsLeft = numRows,
                              !.run.lastKind = "none",
                              !.run.pc = "row"]
  /\ UNCHANGED <<webhook, part000, part001>>

\* lines 693-771: one row of the range; without the status column getRange
\* throws (line 702) and the run ends in its catch block (line 778)
VisitRow ==
  /\ tool.run.pc = "row"
  /\ \E v \in {visit(tool.run.currentRow, tool.status[tool.run.currentRow], rowValues,
                      tool.run.monthFolderCache, env) :
                  rowValues \in RowValues, env \in RowEnv} :
       LET currentRow == tool.run.currentRow
           noCell == currentRow # 1 /\ ~tool.hasStatusColumn
       IN /\ tool.writeFailures + v.writeFailures <= MaxWriteFailures
          /\ tool' =
            IF noCell
              THEN [tool EXCEPT !.run = NoRun]
            ELSE IF v.aborted
              THEN [tool EXCEPT !.drafts[currentRow] = @ + v.draft,
                                !.writeFailures = @ + v.writeFailures,
                                !.run = [NoRun EXCEPT !.lastKind = v.kind]]
            ELSE [tool EXCEPT
                    !.status[currentRow] = v.status,
                    !.drafts[currentRow] = @ + v.draft,
                    !.writeFailures = @ + v.writeFailures,
                    !.run.monthFolderCache = v.cache,
                    !.run.successCount = @ + v.success,
                    !.run.lastKind = v.kind,
                    !.run.currentRow = @ + 1,
                    !.run.rowsLeft = @ - 1,
                    !.run.pc = IF tool.run.rowsLeft = 1 THEN "range" ELSE "row"]
  /\ UNCHANGED <<webhook, part000, part001>>

\* lines 774-777: the alert with the number of drafts
FinishRun ==
  /\ tool.run.pc = "range"
  /\ tool.run.rangesLeft = 0
  /\ tool' = [tool EXCEPT !.run = NoRun]
  /\ UNCHANGED <<webhook, part000, part001>>

Next_tool ==
  \/ StartRun
  \/ NextRange
  \/ VisitRow
  \/ FinishRun

Spec_tool == Init_tool /\ [][Next_tool]_vars


\* the row the run in progress has passed last
lastRow == tool.run.currentRow - 1
\* the rows whose status cell holds "作成済み"
createdRows == {r \in SheetRows : tool.status[r] = CREATED}
\* the failures of a row
FailureKinds == {"missing", "folder", "pdf", "draft"}
\* the status a failure of the kind writes
FailureStatus(kind) ==
  CASE kind = "missing" -> ERR_MISSING
    [] kind = "folder" -> ErrorStatus(FolderNotFound("2025-06"))
    [] kind = "pdf" -> ErrorStatus(PdfNotFound)
    [] OTHER -> ErrorStatus(DraftFailed)
\* the step passes a row on which a failure of one of the four kinds happens
RowFails == tool.run.pc = "row" /\ tool'.run.lastKind \in FailureKinds
\* the failure is recorded in the row alone and the loop goes on
FailureContained ==
  LET row == tool.run.currentRow
  IN /\ tool'.status[row] = FailureStatus(tool'.run.lastKind)
     /\ tool'.drafts = tool.drafts
     /\ \A r \in SheetRows \ {row} : tool'.status[r] = tool.status[r]
     /\ tool'.run.currentRow = row + 1
     /\ tool'.run.rowsLeft = tool.run.rowsLeft - 1
     /\ tool'.run.rangesLeft = tool.run.rangesLeft
     /\ tool'.run.pc = IF tool.run.rowsLeft > 1 THEN "row" ELSE "range"

(***************************************************************************)
(* C34.  Batch draft tool: across any sequence of runs in which the status *)
(* cells are written by the tool alone and every sheet write succeeds, at  *)
(* most one Gmail draft is created per sheet row; and a row whose status   *)
(* is "作成済み" is passed over without a draft and without a change of    *)
(* its status, also when several ranges of the same run cover it.          *)
(***************************************************************************)
C34_AtMostOneDraftPerRow ==
  /\ [](tool.writeFailures = 0 => \A r \in SheetRows : tool.drafts[r] <= 1)
  /\ [][(/\ tool.run.pc = "row"
         /\ tool.status[tool.run.currentRow] = CREATED)
          => /\ tool'.drafts = tool.drafts
             /\ tool'.status = tool.status]_vars

\* a row whose draft this run created (every "作成済み" of the sheet is counted
\* in successCount) has been reached again through another range and passed
\* over, with one draft and no failed write
C34_Witness ==
  /\ tool.run.lastKind = "skipped"
  /\ tool.run.pc \in {"row", "range"}
  /\ tool.run.successCount = Cardinality(createdRows)
  /\ tool.drafts[lastRow] = 1
  /\ tool.writeFailures = 0

(***************************************************************************)
(* C35 as stated.  A failure while processing one selected row (missing    *)
(* required field, month folder not found, PDF not found, draft creation   *)
(* error) writes an error status to that row only, creates no draft for    *)
(* it, leaves every other row's status untouched and does not stop the     *)
(* processing of the remaining selected rows; the header row is never      *)
(* written.                                                                *)
(***************************************************************************)
C35_Original ==
  /\ [](tool.status[1] = STATUS_HEADER)
  /\ [][RowFails => FailureContained]_vars

(***************************************************************************)
(* C35.  A failure while processing one selected row (missing required     *)
(* field, month folder not found, PDF not found, draft creation error)     *)
(* whose setValue of the error status returns writes an error status to    *)
(* that row only, creates no draft for it, leaves every other row's status *)
(* untouched and does not stop the processing of the remaining selected    *)
(* rows.  When that setValue throws, the run ends in its catch block: no   *)
(* status is written, no draft is created and the remaining selected rows  *)
(* are not processed.  The header row is never written.                    *)
(***************************************************************************)
C35_RowFailureContainedUnlessWriteFails ==
  /\ [](tool.status[1] = STATUS_HEADER)
  /\ [][RowFails =>
          IF tool'.writeFailures = tool.writeFailures
            THEN FailureContained
            ELSE /\ tool'.status = tool.status
                 /\ tool'.drafts = tool.drafts
                 /\ tool'.run.pc = "idle"]_vars

\* a row has failed and holds its error status, another row holds the status
\* of its draft, and the loop is at the next row of the range
C35_Witness ==
  /\ tool.run.pc = "row"
  /\ tool.run.lastKind \in FailureKinds
  /\ tool.status[lastRow] = FailureStatus(tool.run.lastKind)
  /\ tool.drafts[lastRow] = 0
  /\ \E r \in SheetRows \ {lastRow} : tool.status[r] = CREATED /\ tool.drafts[r] = 1

=============================================================================
